---------------------------- MODULE Spec2Model ----------------------------
(***************************************************************************)
(* Model of the data cleaning -> outlier removal -> scaling -> linear      *)
(* regression pipeline of project/test_execution_analytics_linear:         *)
(*   app.py                      the Streamlit app and its helper classes  *)
(*   dataset_cleaning.py         the script's CleanedData                  *)
(*   dataset_scaling.py          the script's DataScaler                   *)
(*   linear_regression_model.py  the script's training                     *)
(* and of the outlier removal of assignments/Assignment_week6/CovidEDA.py.  *)
(*                                                                         *)
(* A table (pandas DataFrame) is a record                                  *)
(*   [columns |-> sequence of column names,                                *)
(*    numeric |-> the columns of a numeric dtype,                          *)
(*    rows    |-> sequence of [idx |-> index label, cells |-> [col->cell]]]*)
(* A cell is NaN (<<>>), a number (an exact rational <<num, den>>) or, in  *)
(* an object column, a string <<s>>.  The inputs are small integers, for   *)
(* which the float arithmetic of quantile() and of the bounds is exact.    *)
(***************************************************************************)
EXTENDS Integers, Sequences, FiniteSets, TLC

\* Largest number of rows of a loaded table.
MaxRows == 4

---------------------------------------------------------------------------
\* Numbers: exact rationals <<num, den>>, den > 0, in lowest terms.

Abs(x) == IF x < 0 THEN -x ELSE x

RECURSIVE Gcd(_, _)
Gcd(a, b) == IF b = 0 THEN a ELSE Gcd(b, a % b)

Rat(n, d) == LET g == Gcd(Abs(n), d) IN <<n \div g, d \div g>>

Num(k) == <<k, 1>>

NaN == <<>>

IsNaN(x) == x = NaN

RAdd(a, b) == Rat(a[1] * b[2] + b[1] * a[2], a[2] * b[2])

RSub(a, b) == Rat(a[1] * b[2] - b[1] * a[2], a[2] * b[2])

\* (n/d) * a
RMul(n, d, a) == Rat(n * a[1], d * a[2])

RLe(a, b) == a[1] * b[2] <= b[1] * a[2]

RLt(a, b) == a[1] * b[2] < b[1] * a[2]

\* Comparisons of pandas/numpy: any comparison with NaN is False.
Ge(x, y) == ~IsNaN(x) /\ ~IsNaN(y) /\ RLe(y, x)

Le(x, y) == ~IsNaN(x) /\ ~IsNaN(y) /\ RLe(x, y)

Lt(x, y) == ~IsNaN(x) /\ ~IsNaN(y) /\ RLt(x, y)

Gt(x, y) == ~IsNaN(x) /\ ~IsNaN(y) /\ RLt(y, x)

---------------------------------------------------------------------------
\* Tables.

Range(s) == {s[i] : i \in DOMAIN s}

HasColumn(t, c) == c \in Range(t.columns)

\* df[column]: the cells of a column, in row order.
Column(t, c) == [i \in DOMAIN t.rows |-> t.rows[i].cells[c]]

\* The non-missing cells of a column, in row order.
NotNa(t, c) == SelectSeq(Column(t, c), LAMBDA x : ~IsNaN(x))

\* select_dtypes(include=[np.number]).columns, in column order.
NumericColumns(t) == SelectSeq(t.columns, LAMBDA c : c \in t.numeric)

RECURSIVE SumSeq(_)
SumSeq(s) == IF s = <<>> THEN Num(0) ELSE RAdd(s[1], SumSeq(Tail(s)))

\* Series.mean(): the mean of the non-missing cells; NaN when there is none.
Mean(t, c) ==
    LET v == NotNa(t, c)
    IN IF v = <<>> THEN NaN
       ELSE LET s == SumSeq(v) IN Rat(s[1], s[2] * Len(v))

\* Series.fillna(value): fillna(NaN) changes nothing.
FillNa(t, c, value) ==
    [t EXCEPT !.rows =
        [i \in DOMAIN t.rows |->
            [t.rows[i] EXCEPT !.cells[c] =
                IF IsNaN(@) /\ ~IsNaN(value) THEN value ELSE @]]]

RECURSIVE Insert(_, _)
Insert(x, s) ==
    IF s = <<>> THEN <<x>>
    ELSE IF RLe(x, s[1]) THEN <<x>> \o s
    ELSE <<s[1]>> \o Insert(x, Tail(s))

RECURSIVE Sorted(_)
Sorted(s) == IF s = <<>> THEN <<>> ELSE Insert(s[1], Sorted(Tail(s)))

\* Series.quantile(q4/4), linear interpolation over the sorted non-missing
\* cells: position (n-1)*q, value s[i] + frac*(s[i+1]-s[i]); NaN when there
\* is no cell.
Quantile(t, c, q4) ==
    LET s == Sorted(NotNa(t, c))
        n == Len(s)
        pos4 == (n - 1) * q4
        i == (pos4 \div 4) + 1
        r == pos4 % 4
    IN IF n = 0 THEN NaN
       ELSE IF r = 0 THEN s[i]
       ELSE RAdd(s[i], RMul(r, 4, RSub(s[i + 1], s[i])))


---------------------------------------------------------------------------
\* Cleaning: fill_missing_values.

\* What a stage call gives its caller: the table returned (ret), whether an
\* exception was raised inside the stage (failed) and whether the stage
\* raised it to its caller (raised).
Returned(t, failed) == [ret |-> t, failed |-> failed, raised |-> FALSE]

\* for col in numeric_columns: mean = df[col].mean(); df[col] = df[col].fillna(mean)
RECURSIVE FillColumns(_, _)
FillColumns(t, cols) ==
    IF cols = <<>> THEN t
    ELSE FillColumns(FillNa(t, Head(cols), Mean(t, Head(cols))), Tail(cols))

\* Series.mean() of an object column holding strings raises TypeError.
MeanRaises(t, cols) == \E i \in DOMAIN cols : cols[i] \notin t.numeric

\* app.py CleanedData.fill_missing_values: any exception is reported with
\* st.error and the loader's own table is returned.
fill_missing_values(data, numeric_only) ==
    LET numeric_columns == IF numeric_only THEN NumericColumns(data)
                           ELSE data.columns
    IN IF MeanRaises(data, numeric_columns)
       THEN Returned(data, TRUE)
       ELSE Returned(FillColumns(data, numeric_columns), FALSE)

\* dataset_cleaning.py CleanedData.fill_missing_values: numeric columns only.
script_fill_missing_values(data) ==
    Returned(FillColumns(data, NumericColumns(data)), FALSE)

---------------------------------------------------------------------------
\* Cleaning: remove_outliers.

\* Q1, Q3, IQR = Q3 - Q1, lower = Q1 - 1.5*IQR, upper = Q3 + 1.5*IQR
Bounds(t, c) ==
    LET Q1 == Quantile(t, c, 1)
        Q3 == Quantile(t, c, 3)
    IN IF IsNaN(Q1) THEN [lower |-> NaN, upper |-> NaN]
       ELSE LET IQR == RSub(Q3, Q1)
            IN [lower |-> RSub(Q1, RMul(3, 2, IQR)),
                upper |-> RAdd(Q3, RMul(3, 2, IQR))]

\* A plausible slip: the bounds of every column taken from the table passed
\* in, as CovidEDA.outlier_detection computes them.
StepBoundsOfInput(df, data_cleaned, column) == Bounds(data_cleaned, column)

\* The bounds of one loop iteration: from the table as filtered so far.
StepBounds(df, data_cleaned, column) == Bounds(df, column)

\* A plausible slip: strict comparisons, dropping the rows on a bound.
KeepStrictlyInside(df, column, b) ==
    [df EXCEPT !.rows = SelectSeq(df.rows, LAMBDA r :
        Gt(r.cells[column], b.lower) /\ Lt(r.cells[column], b.upper))]

\* df = df[(df[column] >= lower_bound) & (df[column] <= upper_bound)]
KeepInside(df, column, b) ==
    [df EXCEPT !.rows = SelectSeq(df.rows, LAMBDA r :
        Ge(r.cells[column], b.lower) /\ Le(r.cells[column], b.upper))]

\* outliers = df[(df[column] < lower_bound) | (df[column] > upper_bound)]
\* df.drop(outliers.index, inplace=True): drops by index label.
DropOutside(df, column, b) ==
    LET outliers == SelectSeq(df.rows, LAMBDA r :
            Lt(r.cells[column], b.lower) \/ Gt(r.cells[column], b.upper))
        labels == {outliers[i].idx : i \in DOMAIN outliers}
    IN [df EXCEPT !.rows = SelectSeq(df.rows, LAMBDA r : r.idx \notin labels)]

Step(column, b, before, after) ==
    [column |-> column, lower |-> b.lower, upper |-> b.upper,
     before |-> before, after |-> after]

\* The loop of app.py's remove_outliers: an absent column is skipped;
\* quantile() of an object column raises TypeError.
RECURSIVE AppLoop(_, _, _, _)
AppLoop(df, data_cleaned, columns, steps) ==
    IF columns = <<>> THEN [df |-> df, steps |-> steps, failed |-> FALSE]
    ELSE LET column == Head(columns)
         IN IF ~HasColumn(df, column)
            THEN AppLoop(df, data_cleaned, Tail(columns), steps)
            ELSE IF column \notin df.numeric
            THEN [df |-> df, steps |-> steps, failed |-> TRUE]
            ELSE LET b == StepBounds(df, data_cleaned, column)
                     after == KeepInside(df, column, b)
                 IN AppLoop(after, data_cleaned, Tail(columns),
                            Append(steps, Step(column, b, df, after)))

\* app.py CleanedData.remove_outliers: on an exception the table passed in is
\* returned.
remove_outliers(data_cleaned, columns) ==
    LET r == AppLoop(data_cleaned, data_cleaned, columns, <<>>)
    IN [ret |-> IF r.failed THEN data_cleaned ELSE r.df,
        failed |-> r.failed, raised |-> FALSE, steps |-> r.steps]

\* The loop of dataset_cleaning.py's remove_outliers: df[column] of an absent
\* column raises KeyError, which ends the loop.
RECURSIVE ScriptLoop(_, _, _, _)
ScriptLoop(df, data_cleaned, columns, steps) ==
    IF columns = <<>> THEN [df |-> df, steps |-> steps, failed |-> FALSE]
    ELSE LET column == Head(columns)
         IN IF ~HasColumn(df, column) \/ column \notin df.numeric
            THEN [df |-> df, steps |-> steps, failed |-> TRUE]
            ELSE LET b == StepBounds(df, data_cleaned, column)
                     after == DropOutside(df, column, b)
                 IN ScriptLoop(after, data_cleaned, Tail(columns),
                               Append(steps, Step(column, b, df, after)))

\* dataset_cleaning.py CleanedData.remove_outliers: on an exception the table
\* as filtered so far is returned.
script_remove_outliers(data_cleaned, columns) ==
    LET r == ScriptLoop(data_cleaned, data_cleaned, columns, <<>>)
    IN [ret |-> r.df, failed |-> r.failed, raised |-> FALSE,
        steps |-> r.steps]

ColConfirmed == "Confirmed"
ColNewCases == "New cases"

\* CovidEDA.py outlier_detection: the bounds of both columns are computed
\* from the table passed in, and one filter keeps the rows inside both.
outlier_detection(data) ==
    LET confirmed == Bounds(data, ColConfirmed)
        new_cases == Bounds(data, ColNewCases)
        cleaned_data ==
            [data EXCEPT !.rows = SelectSeq(data.rows, LAMBDA r :
                /\ Ge(r.cells[ColConfirmed], confirmed.lower)
                /\ Le(r.cells[ColConfirmed], confirmed.upper)
                /\ Ge(r.cells[ColNewCases], new_cases.lower)
                /\ Le(r.cells[ColNewCases], new_cases.upper))]
    IN [ret |-> cleaned_data, failed |-> FALSE, raised |-> FALSE,
        steps |-> <<>>]

---------------------------------------------------------------------------
\* Scaling: StandardScaler.fit_transform through scale_data.

RProd(a, b) == Rat(a[1] * b[1], a[2] * b[2])

RECURSIVE SumSq(_, _)
SumSq(s, m) ==
    IF s = <<>> THEN Num(0)
    ELSE RAdd(RProd(RSub(s[1], m), RSub(s[1], m)), SumSq(Tail(s), m))

\* StandardScaler.fit of one column: mean_ and var_ (population variance)
\* over the non-missing cells; both NaN when there is none.
FitColumn(t, c) ==
    LET v == NotNa(t, c)
        m == Mean(t, c)
    IN IF v = <<>> THEN [mean |-> NaN, var |-> NaN]
       ELSE LET q == SumSq(v, m)
            IN [mean |-> m, var |-> Rat(q[1], q[2] * Len(v))]

\* A variant that subtracts the mean and does not divide.
CentreOnly(x, p) ==
    IF IsNaN(x) \/ IsNaN(p.mean) THEN NaN
    ELSE LET d == RSub(x, p.mean) IN <<d[1], d[2], 1, 1>>

\* A scaled cell (x - mean) / sqrt(var) is kept exactly, as
\* <<num, den, vnum, vden>> for (num/den) / sqrt(vnum/vden).  A column of
\* variance 0 gets scale_ = 1 (sklearn's _handle_zeros_in_scale), so its
\* cells become x - mean = 0.  A missing cell stays missing.
Standardize(x, p) ==
    IF IsNaN(x) \/ IsNaN(p.mean) THEN NaN
    ELSE LET d == RSub(x, p.mean)
         IN IF p.var[1] = 0 THEN <<d[1], d[2], 1, 1>>
            ELSE <<d[1], d[2], p.var[1], p.var[2]>>

\* self.scaler.fit_transform(data_scaled[columns]): the parameters fitted.
Fit(t, columns) == [c \in Range(columns) |-> FitColumn(t, c)]

\* data_scaled[columns] = self.scaler.fit_transform(data_scaled[columns])
FitTransform(t, columns) ==
    LET params == Fit(t, columns)
    IN [t EXCEPT !.rows =
        [i \in DOMAIN t.rows |->
            [t.rows[i] EXCEPT !.cells =
                [c \in DOMAIN @ |->
                    IF c \in Range(columns) THEN Standardize(@[c], params[c])
                    ELSE @[c]]]]]

\* fit_transform raises ValueError for no column or no row (check_array), and
\* selecting an absent column raises KeyError.
FitTransformRaises(t, columns) ==
    \/ columns = <<>>
    \/ t.rows = <<>>
    \/ \E i \in DOMAIN columns : columns[i] \notin t.numeric

\* app.py DataScaler.scale_data(data, columns): on an exception the table
\* passed in is returned.
scale_data(data, columns) ==
    IF FitTransformRaises(data, columns)
    THEN [ret |-> data, failed |-> TRUE, raised |-> FALSE, params |-> <<>>]
    ELSE [ret |-> FitTransform(data, columns), failed |-> FALSE,
          raised |-> FALSE, params |-> Fit(data, columns)]

\* A variant that scales the complete rows only (data.dropna() first).
ScaleCompleteRows(data) ==
    LET complete(row) == \A c \in data.numeric : ~IsNaN(row.cells[c])
        kept == [data EXCEPT !.rows = SelectSeq(@, complete)]
    IN scale_data(kept, NumericColumns(kept))

\* dataset_scaling.py DataScaler.scale_data(data): every float64/int64 column;
\* on an exception the unscaled copy is returned.
script_scale_data(data) == scale_data(data, NumericColumns(data))

---------------------------------------------------------------------------
\* The tables a run is given.

ColTestCaseCount == "Test_Case_Count"
ColCodeChurn == "Code_Churn"
ColModule == "Module"
\* A column named by the script's column list and by no table here.
ColExecutionTimePrevious == "Execution_Time_Previous"

CleanColumns == <<ColTestCaseCount, ColCodeChurn, ColModule>>

\* The cells of one row of a loaded file.
RowCells ==
    [Test_Case_Count : {Num(0), Num(1), NaN},
     Code_Churn : {Num(0), Num(1)},
     Module : {<<"m">>}]

\* pd.read_csv: rows labelled 0..n-1 (RangeIndex); the columns holding
\* numbers (and missing values) are numeric.
ReadCsv(columns, numeric, cells) ==
    [columns |-> columns,
     numeric |-> numeric,
     rows |-> [i \in DOMAIN cells |-> [idx |-> i - 1, cells |-> cells[i]]]]

\* The files loaded: at least one data row, at most MaxRows.
LoadedTables ==
    {ReadCsv(CleanColumns, {ColTestCaseCount, ColCodeChurn}, cells) :
        cells \in UNION {[1..n -> RowCells] : n \in 1..MaxRows}}

CovidColumns == <<ColConfirmed, ColNewCases>>

\* CovidEDA._load_data: data[['Confirmed', 'New cases']] of the file read.
CovidTables ==
    {ReadCsv(CovidColumns, Range(CovidColumns), cells) :
        cells \in UNION {[1..n -> [Range(CovidColumns) -> {Num(0), Num(1)}]] :
                            n \in 1..MaxRows}}

\* The column lists handed to remove_outliers: one or two distinct columns.
OutlierColumnNames == {ColTestCaseCount, ColCodeChurn, ColExecutionTimePrevious}

ColumnLists ==
    {<<c>> : c \in OutlierColumnNames}
    \cup ({<<c, d>> : c, d \in OutlierColumnNames}
            \ {<<c, c>> : c \in OutlierColumnNames})

\* The column selections handed to the app's scale_data (a multiselect over
\* the numeric columns).
ScaleSelections ==
    {<<>>, <<ColTestCaseCount>>, <<ColCodeChurn>>, <<ColTestCaseCount, ColCodeChurn>>}

---------------------------------------------------------------------------
\* State.
\*   data     the table the loader holds (self.data) once a file is loaded
\*   call     the stage call made on it: operation, implementation, arguments
\*   out      what that call returned
\*   again    what the same call returned when repeated on its own result

\*   upload         the app's uploaded file as read (df_initial), if any
\*   session_state  the app's st.session_state: cleaned_df, scaled_df, models
\*                  and last_eval, each absent (<<>>) or present (<<value>>)
\*   event          what the last button handler of the app did

VARIABLES data, call, out, again, upload, session_state, event

vars == <<data, call, out, again, upload, session_state, event>>

stageVars == <<data, call, out, again>>

appVars == <<upload, session_state, event>>

NoTable == [columns |-> <<>>, numeric |-> {}, rows |-> <<>>]

NoCall == [op |-> "none", impl |-> "none", columns |-> <<>>, numeric_only |-> TRUE]

NoResult == [ret |-> NoTable, failed |-> FALSE, raised |-> FALSE]

Call(op, impl, columns, numeric_only) ==
    [op |-> op, impl |-> impl, columns |-> columns, numeric_only |-> numeric_only]

Absent == <<>>

Present(x) == <<x>>

EmptySession ==
    [cleaned_df |-> Absent, scaled_df |-> Absent, models |-> Absent,
     last_eval |-> Absent]

NoEvent == [op |-> "none"]

---------------------------------------------------------------------------
\* The stages applied to a loaded table (the calls made by the run_clean and
\* scale_button handlers of app.py and by the __main__ of the scripts).
\* The project's stages are applied to the project's files, CovidEDA's
\* outlier_detection to the file CovidEDA loads.

CleanInit ==
    /\ data \in LoadedTables \cup CovidTables
    /\ call = NoCall
    /\ out = NoResult
    /\ again = NoResult
    /\ upload = Absent
    /\ session_state = EmptySession
    /\ event = NoEvent

\* cleaned = cd.fill_missing_values(numeric_only=numeric_only)
AppFillMissingValues ==
    \E numeric_only \in BOOLEAN :
        /\ call.op = "none"
        /\ data.columns = CleanColumns
        /\ call' = Call("fill", "app", <<>>, numeric_only)
        /\ out' = fill_missing_values(data, numeric_only)
        /\ UNCHANGED <<data, again, appVars>>

\* cleaned_data_without_blanks = data_scaler.fill_missing_values()
ScriptFillMissingValues ==
    /\ call.op = "none"
    /\ data.columns = CleanColumns
    /\ call' = Call("fill", "script", <<>>, TRUE)
    /\ out' = script_fill_missing_values(data)
    /\ UNCHANGED <<data, again, appVars>>

\* cleaned = cd.remove_outliers(cleaned, outlier_columns)
AppRemoveOutliers ==
    \E columns \in ColumnLists :
        /\ call.op = "none"
        /\ data.columns = CleanColumns
        /\ call' = Call("outliers", "app", columns, TRUE)
        /\ out' = remove_outliers(data, columns)
        /\ UNCHANGED <<data, again, appVars>>

\* cleaned_data_without_outliers = data_scaler.remove_outliers(..., columns)
ScriptRemoveOutliers ==
    \E columns \in ColumnLists :
        /\ call.op = "none"
        /\ data.columns = CleanColumns
        /\ call' = Call("outliers", "script", columns, TRUE)
        /\ out' = script_remove_outliers(data, columns)
        /\ UNCHANGED <<data, again, appVars>>

\* report.outlier_detection(data)
CovidOutlierDetection ==
    /\ call.op = "none"
    /\ data.columns = CovidColumns
    /\ call' = Call("outliers", "covid", CovidColumns, TRUE)
    /\ out' = outlier_detection(data)
    /\ UNCHANGED <<data, again, appVars>>

\* The outlier removal run again, with the same column list, on what it
\* returned.
RemoveOutliersAgain ==
    /\ call.op = "outliers"
    /\ call' = [call EXCEPT !.op = "outliers again"]
    /\ again' = IF call.impl = "app" THEN remove_outliers(out.ret, call.columns)
                ELSE IF call.impl = "script"
                THEN script_remove_outliers(out.ret, call.columns)
                ELSE outlier_detection(out.ret)
    /\ UNCHANGED <<data, out, appVars>>

\* scaled_df = scaler.scale_data(cleaned_df, columns=chosen_cols)
AppScaleData ==
    \E columns \in ScaleSelections :
        /\ call.op = "none"
        /\ data.columns = CleanColumns
        /\ call' = Call("scale", "app", columns, TRUE)
        /\ out' = scale_data(data, columns)
        /\ UNCHANGED <<data, again, appVars>>

\* scaled_data = data_scaler.scale_data(cleaned_data_without_outliers)
ScriptScaleData ==
    /\ call.op = "none"
    /\ data.columns = CleanColumns
    /\ call' = Call("scale", "script", NumericColumns(data), TRUE)
    /\ out' = script_scale_data(data)
    /\ UNCHANGED <<data, again, appVars>>

CleanNext ==
    \/ ScriptFillMissingValues
    \/ AppFillMissingValues
    \/ AppRemoveOutliers
    \/ ScriptRemoveOutliers
    \/ CovidOutlierDetection
    \/ RemoveOutliersAgain
    \/ AppScaleData
    \/ ScriptScaleData

CleanSpec == CleanInit /\ [][CleanNext]_vars

---------------------------------------------------------------------------
\* Properties of the cleaning stages (checked under CleanSpec).

NoMissing(t, c) == \A i \in DOMAIN t.rows : ~IsNaN(t.rows[i].cells[c])

AllMissing(t, c) ==
    /\ t.rows # <<>>
    /\ \A i \in DOMAIN t.rows : IsNaN(t.rows[i].cells[c])

\* x lies in [Q1 - 1.5*IQR, Q3 + 1.5*IQR], the quartiles being those of
\* column c of table t.
InIqrInterval(x, t, c) ==
    LET Q1 == Quantile(t, c, 1)
        Q3 == Quantile(t, c, 3)
    IN /\ ~IsNaN(x)
       /\ ~IsNaN(Q1)
       /\ LET IQR == RSub(Q3, Q1)
          IN /\ RLe(RSub(Q1, RMul(3, 2, IQR)), x)
             /\ RLe(x, RAdd(Q3, RMul(3, 2, IQR)))

HasValue(r, c) == ~IsNaN(r.cells[c])

\* C1: fill_missing_values returns a table in which no targeted numeric
\* column contains a missing value, and every non-targeted column is the
\* input's column.
C1_FillLeavesNoMissing ==
    call.op = "fill" =>
        /\ \A c \in data.numeric : NoMissing(out.ret, c)
        /\ \A c \in Range(data.columns) \ data.numeric :
               Column(out.ret, c) = Column(data, c)

\* C2: when a targeted numeric column has every entry missing,
\* fill_missing_values signals an error to its caller instead of returning
\* a table.
C2_EmptyColumnSignalled ==
    (call.op = "fill" /\ \E c \in data.numeric : AllMissing(data, c))
        => out.raised

\* C3: for a single processed column, remove_outliers keeps exactly the rows
\* whose value lies in the closed interval [Q1 - 1.5*IQR, Q3 + 1.5*IQR] of
\* that column's quartiles: a value on a bound is kept, a value outside is
\* dropped, and no other row is dropped.
C3_KeepsExactlyInside ==
    (call.op = "outliers" /\ call.impl \in {"app", "script"}
        /\ Len(call.columns) = 1 /\ call.columns[1] \in data.numeric) =>
        LET c == call.columns[1]
        IN /\ out.ret.columns = data.columns
           /\ out.ret.rows = SelectSeq(data.rows,
                    LAMBDA r : InIqrInterval(r.cells[c], data, c))

\* C3, as far as it holds: the app keeps exactly the rows whose value lies
\* in the closed interval; the script keeps exactly those among the rows
\* that have a value, and also every row whose value is missing.
C3_SingleColumnClosedInterval ==
    (call.op = "outliers" /\ call.impl \in {"app", "script"}
        /\ Len(call.columns) = 1 /\ call.columns[1] \in data.numeric) =>
        LET c == call.columns[1]
            inside == SelectSeq(data.rows,
                                LAMBDA r : InIqrInterval(r.cells[c], data, c))
        IN /\ out.ret.columns = data.columns
           /\ call.impl = "app" => out.ret.rows = inside
           /\ call.impl = "script" =>
                /\ SelectSeq(out.ret.rows, LAMBDA r : HasValue(r, c)) = inside
                /\ SelectSeq(out.ret.rows, LAMBDA r : ~HasValue(r, c))
                     = SelectSeq(data.rows, LAMBDA r : ~HasValue(r, c))

\* C3's case: a single-column call on a column without missing values that
\* drops a row and keeps a row.
C3_Witness ==
    /\ call.op = "outliers"
    /\ call.impl = "app"
    /\ call.columns = <<ColTestCaseCount>>
    /\ NoMissing(data, ColTestCaseCount)
    /\ out.ret.rows # <<>>
    /\ Len(out.ret.rows) < Len(data.rows)

\* Single-column outlier removal applied successively, in list order.
RECURSIVE Successively(_, _)
Successively(t, columns) ==
    IF columns = <<>> THEN t
    ELSE Successively(remove_outliers(t, <<Head(columns)>>).ret, Tail(columns))

\* C4: for a column list c1..cn the outlier removal computes the bounds of
\* ck from the rows that survived c1..c(k-1): its result is that of
\* single-column removal applied successively in list order.
C4_SuccessiveRemoval ==
    (call.op = "outliers" /\ call.impl \in {"app", "covid"})
        => out.ret = Successively(data, call.columns)

\* C4 for app.py: for a column list c1..cn the app's remove_outliers computes the bounds
\* of ck from the rows that survived c1..c(k-1): step k starts from the table
\* step k-1 left, its bounds are those of that table, it keeps the rows inside
\* them; the result is that of single-column removal applied successively, and
\* every surviving row satisfies the bounds of every step.
C4_BoundsFromSurvivingRows ==
    (call.op = "outliers" /\ call.impl = "app") =>
        LET present == SelectSeq(call.columns, LAMBDA c : HasColumn(data, c))
            steps == out.steps
        IN /\ Len(steps) = Len(present)
           /\ \A k \in DOMAIN steps :
                LET st == steps[k]
                IN /\ st.column = present[k]
                   /\ st.before = IF k = 1 THEN data ELSE steps[k - 1].after
                   /\ st.after.rows = SelectSeq(st.before.rows,
                        LAMBDA r : InIqrInterval(r.cells[st.column],
                                                 st.before, st.column))
                   /\ \A i \in DOMAIN out.ret.rows :
                        /\ Ge(out.ret.rows[i].cells[st.column], st.lower)
                        /\ Le(out.ret.rows[i].cells[st.column], st.upper)
           /\ out.ret = IF steps = <<>> THEN data ELSE steps[Len(steps)].after
           /\ out.ret = Successively(data, call.columns)

\* C4's case: the first column drops a row, which changes the bounds of the
\* second column, and a row survives that the bounds of the unfiltered table
\* would have dropped.
C4_Witness ==
    /\ call.op = "outliers"
    /\ call.impl = "app"
    /\ Len(out.steps) = 2
    /\ NoMissing(data, out.steps[1].column)
    /\ Len(out.steps[2].before.rows) < Len(data.rows)
    /\ \E i \in DOMAIN out.ret.rows :
         ~InIqrInterval(out.ret.rows[i].cells[out.steps[2].column],
                        data, out.steps[2].column)

\* No row of t has, in a listed column, a value outside that column's bounds
\* (every value lies in the closed interval).
NoValueOutside(t, columns) ==
    \A c \in Range(columns) \cap t.numeric :
        \A i \in DOMAIN t.rows : InIqrInterval(t.rows[i].cells[c], t, c)

C6_UnknownColumnSignalled ==
    (call.op = "outliers"
        /\ \E i \in DOMAIN call.columns : ~HasColumn(data, call.columns[i]))
        => out.raised

\* Every cell of column c has the same value: standard deviation zero.
ZeroVariance(t, c) ==
    /\ t.rows # <<>>
    /\ NoMissing(t, c)
    /\ \A i \in DOMAIN t.rows : t.rows[i].cells[c] = t.rows[1].cells[c]

\* C7: scaling a table in which a selected column has standard deviation zero
\* signals an error to the caller rather than returning a table.
C7_ZeroVarianceSignalled ==
    (call.op = "scale"
        /\ \E c \in Range(call.columns) \cap data.numeric : ZeroVariance(data, c))
        => out.raised

---------------------------------------------------------------------------
\* Training: the constants of linear_regression_model.py, repeated in the
\* train_button handler of app.py.

RANDOM_STATE == 42

\* TEST_SIZE = 0.2, in twentieths (the app's slider moves in steps of 0.05).
TEST_SIZE == 4

FEATURE_COLUMNS ==
    <<"Module_Complexity_Score", "Test_Case_Count", "Automation_Coverage",
      "Code_Churn", "Defects_Previous_Cycle", "Execution_Time_Previous">>

TARGET_TIME == "Estimated_Execution_Time"

TARGET_DEFECTS == "Expected_Defect_Count"

\* The permutation of the row positions 1..n that ShuffleSplit draws from
\* RandomState(seed): a fixed function of the seed and of n alone (the
\* generator itself is not modelled; a rotation by the seed stands for it).
Permutation(seed, n) == [i \in 1..n |-> ((seed + i) % n) + 1]

\* sklearn's train_test_split(X, y, test_size, random_state) on arrays of
\* nX and ny rows: n_test = ceil(test_size * n), n_train = n - n_test, the
\* test rows are the first n_test of the permutation and the train rows the
\* rest.  ValueError for arrays of different lengths or an empty train set.
SplitRaises(nX, ny, args) ==
    \/ nX # ny
    \/ nX = 0
    \/ nX - ((args.test_size * nX + 19) \div 20) = 0

\* An unseeded generator (random_state=None): the seed is whatever the
\* clock gives, so any rotation may be drawn.
AnyShuffle(seed, n) == {Permutation(other, n) : other \in 0..n}

\* The permutations that RandomState(seed).permutation(n) may return: an
\* integer seed fixes the one that is drawn.
Shuffles(seed, n) == {Permutation(seed, n)}

\* A plausible slip: the size of the test set rounded down.
SplitWithFloor(permutation, n, args) ==
    LET n_test == (args.test_size * n) \div 20
    IN [test |-> SubSeq(permutation, 1, n_test),
        train |-> SubSeq(permutation, n_test + 1, n)]

\* The partition made from a drawn permutation: the first n_test positions
\* are the test rows, the rest the train rows.
SplitWith(permutation, n, args) ==
    LET n_test == (args.test_size * n + 19) \div 20
    IN [test |-> SubSeq(permutation, 1, n_test),
        train |-> SubSeq(permutation, n_test + 1, n)]

train_test_split(n, args) ==
    SplitWith(Permutation(args.random_state, n), n, args)

\* A[indices]: the rows of an array at the given positions.
Take(A, indices) == [k \in DOMAIN indices |-> A[indices[k]]]

\* scaled_df[default_features].values
Values(t, columns) ==
    [i \in DOMAIN t.rows |->
        [k \in DOMAIN columns |-> t.rows[i].cells[columns[k]]]]

\* LinearRegression().fit(X, y): the least-squares model of (X, y), kept as
\* the data it was fitted on.
LinearRegressionFit(X, y) == [X |-> X, y |-> y]

\* A variant predicting with a model that was not fitted.
PredictUnfitted(model, X) == [model |-> <<>>, X |-> X]

\* model.predict(X)
Predict(model, X) == [model |-> model, X |-> X]

\* fit, predict and the metrics raise ValueError on a missing value.
HasNaN(X, y) ==
    \/ \E i \in DOMAIN X : \E k \in DOMAIN X[i] : IsNaN(X[i][k])
    \/ \E i \in DOMAIN y : IsNaN(y[i])

---------------------------------------------------------------------------
\* The app (app.py): one action per upload or button click, each the rerun
\* of the script that the click causes.

AppColumns == FEATURE_COLUMNS \o <<TARGET_TIME, TARGET_DEFECTS, ColModule>>

\* The uploaded files: Test_Case_Count varies, the targets number the rows,
\* Module is an object column.
AppRowCells(i, tcc) ==
    [c \in Range(AppColumns) |->
        IF c = ColTestCaseCount THEN tcc
        ELSE IF c = ColModule THEN <<"m">>
        ELSE IF c \in {TARGET_TIME, TARGET_DEFECTS} THEN Num(i)
        ELSE Num(0)]

\* The Test_Case_Count columns of the uploaded files, of MaxRows rows:
\* missing cells first, then zeros, then ones (the stages do not depend on
\* the order of the rows; shorter tables arise from the cleaning).
TestCaseCounts ==
    LET rank(x) == IF IsNaN(x) THEN 0 ELSE x[1] + 1
    IN {tccs \in [1..MaxRows -> {Num(0), Num(1), NaN}] :
            \A i \in 1..(MaxRows - 1) : rank(tccs[i]) <= rank(tccs[i + 1])}

UploadedTables ==
    {ReadCsv(AppColumns, Range(AppColumns) \ {ColModule},
             [i \in DOMAIN tccs |-> AppRowCells(i, tccs[i])]) :
        tccs \in TestCaseCounts}

\* The choices of the "remove outliers from" multiselect that are tried.
OutlierChoices == {<<>>, <<ColTestCaseCount>>}

\* The choices of the "Columns to scale" multiselect that are tried.
ScaleChoices(cleaned_df) == {<<>>, NumericColumns(cleaned_df)}

\* A test fraction (0.5, in twentieths) and a random state that the user may
\* set instead of the defaults.
OtherTestSize == TEST_SIZE + 6

OtherRandomState == RANDOM_STATE + 1

Selection(features, time, defects, test_size, random_state) ==
    [selected_features |-> features, target_time |-> time,
     target_defects |-> defects, test_size |-> test_size,
     random_state |-> random_state]

\* The widget values at a click on "Train models": the defaults, and the
\* defaults with one widget changed (None is <<>>).
TrainSelections ==
    LET T == <<TARGET_TIME>>
        D == <<TARGET_DEFECTS>>
    IN {Selection(FEATURE_COLUMNS, T, D, TEST_SIZE, RANDOM_STATE),
        Selection(<<ColTestCaseCount>>, T, D, TEST_SIZE, RANDOM_STATE),
        Selection(<<>>, T, D, TEST_SIZE, RANDOM_STATE),
        Selection(FEATURE_COLUMNS, <<>>, D, TEST_SIZE, RANDOM_STATE),
        Selection(<<>>, <<>>, <<>>, TEST_SIZE, RANDOM_STATE),
        Selection(FEATURE_COLUMNS, T, D, OtherTestSize, RANDOM_STATE),
        Selection(FEATURE_COLUMNS, T, D, TEST_SIZE, OtherRandomState)}

Init ==
    /\ upload = Absent
    /\ session_state = EmptySession
    /\ event = NoEvent
    /\ data = NoTable
    /\ call = NoCall
    /\ out = NoResult
    /\ again = NoResult

\* upload = st.sidebar.file_uploader(...); df_initial = pd.read_csv(upload)
\* (a session is followed with the one file it uploads).
Upload ==
    /\ upload = Absent
    /\ \E t \in UploadedTables : upload' = Present(t)
    /\ event' = [op |-> "upload"]
    /\ UNCHANGED <<session_state, stageVars>>

\* The body of "if run_clean:": the stages that are switched on, in order.
\* The handler stores what the last stage returned and reports success.
run_clean(df, fill_mean, numeric_only, outlier_columns) ==
    LET filled == IF fill_mean THEN fill_missing_values(df, numeric_only)
                  ELSE Returned(df, FALSE)
        removed == IF outlier_columns # <<>>
                   THEN remove_outliers(filled.ret, outlier_columns)
                   ELSE Returned(filled.ret, FALSE)
    IN [cleaned |-> removed.ret,
        event |->
            [op |-> "run_clean",
             failed |-> (IF filled.failed THEN {"fill_missing_values"} ELSE {})
                        \cup (IF removed.failed THEN {"remove_outliers"} ELSE {}),
             raised |-> (IF filled.raised THEN {"fill_missing_values"} ELSE {})
                        \cup (IF removed.raised THEN {"remove_outliers"} ELSE {}),
             success |-> TRUE,
             stored |-> {"cleaned_df"}]]

\* if run_clean: ... st.session_state["cleaned_df"] = cleaned
ClickRunClean ==
    /\ upload # Absent
    /\ \E fill_mean, numeric_only \in BOOLEAN, outlier_columns \in OutlierChoices :
        \E r \in {run_clean(upload[1], fill_mean, numeric_only, outlier_columns)} :
            /\ session_state' = [session_state EXCEPT !.cleaned_df = Present(r.cleaned)]
            /\ event' = r.event
    /\ UNCHANGED <<upload, stageVars>>

\* The body of "if scale_button:": scale_data on the cleaned table; the
\* handler stores what it returned and reports success.
scale_button(cleaned_df, chosen_cols) ==
    LET scaled == scale_data(cleaned_df, chosen_cols)
    IN [scaled |-> scaled.ret,
        event |->
            [op |-> "scale",
             failed |-> IF scaled.failed THEN {"scale_data"} ELSE {},
             raised |-> IF scaled.raised THEN {"scale_data"} ELSE {},
             success |-> TRUE,
             stored |-> {"scaled_df"}]]

\* if scale_button: ... st.session_state["scaled_df"] = scaled_df
ClickScale ==
    /\ session_state.cleaned_df # Absent
    /\ \E chosen_cols \in ScaleChoices(session_state.cleaned_df[1]) :
        \E r \in {scale_button(session_state.cleaned_df[1], chosen_cols)} :
            /\ session_state' = [session_state EXCEPT !.scaled_df = Present(r.scaled)]
            /\ event' = r.event
    /\ UNCHANGED <<upload, stageVars>>

\* What the widgets let the user select at this point: features among the
\* columns of a non-empty scaled_df, targets among the columns of cleaned_df.
SelectableIn(session, sel) ==
    LET feature_cols ==
            IF session.scaled_df # Absent /\ session.scaled_df[1].rows # <<>>
            THEN Range(session.scaled_df[1].columns) ELSE {}
        cleaned_cols ==
            IF session.cleaned_df # Absent
            THEN Range(session.cleaned_df[1].columns) ELSE {}
    IN /\ Range(sel.selected_features) \subseteq feature_cols
       /\ Range(sel.target_time) \subseteq cleaned_cols
       /\ Range(sel.target_defects) \subseteq cleaned_cols

Selectable(sel) == SelectableIn(session_state, sel)

\* The arguments of the two train_test_split calls of the handler.  A
\* plausible slip: the second call given the widgets' values.
SplitArgsOfWidgets(sel) ==
    [test_size |-> sel.test_size, random_state |-> sel.random_state]

\* train_test_split(X, y_time, test_size=0.2, random_state=42): the handler's
\* own literals (0.2 is 4 twentieths).
SplitArgsTime(sel) == [test_size |-> 4, random_state |-> 42]

\* train_test_split(X, y_defects, test_size=0.2, random_state=42)
SplitArgsDefects(sel) == [test_size |-> 4, random_state |-> 42]

\* The list the handler spells out before reading X.
default_features ==
    <<"Module_Complexity_Score", "Test_Case_Count", "Automation_Coverage",
      "Code_Churn", "Defects_Previous_Cycle", "Execution_Time_Previous">>

\* The columns the handler reads: default_features of scaled_df and the two
\* targets of cleaned_df, whatever the widgets hold.
UsedFeatures(sel) == default_features

UsedTargetTime(sel) == "Estimated_Execution_Time"

UsedTargetDefects(sel) == "Expected_Defect_Count"

\* A variant that shows nothing.
SilentFailure(sel, message) ==
    [op |-> "train", sel |-> sel, trained |-> FALSE, error |-> ""]

TrainError(sel, message) ==
    [op |-> "train", sel |-> sel, trained |-> FALSE, error |-> message]

\* The try block of the train_button handler.  Any exception (KeyError for
\* an absent column, ValueError of the split, of fit, of predict or of the
\* metrics) leaves st.session_state as it was.
TryTrain(sel, scaled_df, cleaned_df) ==
    LET features == UsedFeatures(sel)
        time == UsedTargetTime(sel)
        defects == UsedTargetDefects(sel)
    IN IF \/ \E k \in DOMAIN features : ~HasColumn(scaled_df, features[k])
          \/ ~HasColumn(cleaned_df, time)
          \/ ~HasColumn(cleaned_df, defects)
       THEN [trained |-> FALSE]
       ELSE
       LET X == Values(scaled_df, features)
           y_time == Column(cleaned_df, time)
           y_defects == Column(cleaned_df, defects)
           args_time == SplitArgsTime(sel)
           args_defects == SplitArgsDefects(sel)
       IN IF \/ SplitRaises(Len(X), Len(y_time), args_time)
             \/ SplitRaises(Len(X), Len(y_defects), args_defects)
             \/ HasNaN(X, y_time)
             \/ HasNaN(X, y_defects)
          THEN [trained |-> FALSE]
          ELSE
          LET split_time == train_test_split(Len(X), args_time)
              split_defects == train_test_split(Len(X), args_defects)
              X_train == Take(X, split_time.train)
              X_test == Take(X, split_time.test)
              y_train_time == Take(y_time, split_time.train)
              y_test_time == Take(y_time, split_time.test)
              y_train_defects == Take(y_defects, split_defects.train)
              y_test_defects == Take(y_defects, split_defects.test)
              time_model == LinearRegressionFit(X_train, y_train_time)
              defect_model == LinearRegressionFit(X_train, y_train_defects)
          IN [trained |-> TRUE,
              used |-> [features |-> features, target_time |-> time,
                        target_defects |-> defects,
                        args_time |-> args_time, args_defects |-> args_defects],
              split_time |-> split_time,
              split_defects |-> split_defects,
              models |-> [time_model |-> time_model,
                          defect_model |-> defect_model],
              last_eval |-> [y_test_time |-> y_test_time,
                             y_pred_time |-> Predict(time_model, X_test),
                             y_test_defects |-> y_test_defects,
                             y_pred_defects |-> Predict(defect_model, X_test)]]

\* if train_button: the guards, then the try block, on the session the
\* click belongs to: the session afterwards and what the click showed.
train_button(session, sel) ==
    IF session.scaled_df = Absent
    THEN [session |-> session,
          event |-> TrainError(sel, "No scaled dataframe found.")]
    ELSE IF session.cleaned_df = Absent
    THEN [session |-> session,
          event |-> TrainError(sel, "No cleaned dataframe found.")]
    ELSE IF sel.selected_features = <<>>
    THEN [session |-> session,
          event |-> TrainError(sel, "Pick at least one feature column.")]
    ELSE IF sel.target_time = <<>> \/ sel.target_defects = <<>>
    THEN [session |-> session,
          event |-> TrainError(sel, "Select both targets.")]
    ELSE LET r == TryTrain(sel, session.scaled_df[1], session.cleaned_df[1])
         IN IF r.trained
            THEN [session |-> [session EXCEPT
                                  !.models = Present(r.models),
                                  !.last_eval = Present(r.last_eval)],
                  event |-> [op |-> "train", sel |-> sel,
                             trained |-> TRUE, error |-> "",
                             used |-> r.used,
                             split_time |-> r.split_time,
                             split_defects |-> r.split_defects]]
            ELSE [session |-> session,
                  event |-> TrainError(sel, "Training error")]

ClickTrain ==
    \E sel \in TrainSelections :
        /\ Selectable(sel)
        /\ \E r \in {train_button(session_state, sel)} :
            /\ session_state' = r.session
            /\ event' = r.event
        /\ UNCHANGED <<upload, stageVars>>

Next ==
    \/ Upload
    \/ ClickRunClean
    \/ ClickScale
    \/ ClickTrain

Spec == Init /\ [][Next]_vars

---------------------------------------------------------------------------
\* Claims about the app's handlers.

\* The widget values of the click as split arguments.
WidgetArgs(sel) == [test_size |-> sel.test_size, random_state |-> sel.random_state]

\* C8: when a stage (fill_missing_values, remove_outliers, scale_data) fails
\* inside a click, the failure reaches the handler as an error: the handler
\* does not report success and does not store the table the stage gave back.
C8_StageFailureSurfaced ==
    (event.op \in {"run_clean", "scale"} /\ event.failed # {})
        => /\ event.failed \subseteq event.raised
           /\ ~event.success
           /\ event.stored = {}

\* C9: a training run uses the feature columns, the target columns, the test
\* fraction and the random state that the user selected in the widgets.
C9_TrainingUsesSelection ==
    (event.op = "train" /\ event.trained)
        => /\ event.used.features = event.sel.selected_features
           /\ <<event.used.target_time>> = event.sel.target_time
           /\ <<event.used.target_defects>> = event.sel.target_defects
           /\ event.used.args_time = WidgetArgs(event.sel)
           /\ event.used.args_defects = WidgetArgs(event.sel)

\* C10: the time model and the defect model of one training run are trained
\* and evaluated on the same row partition: the same rows are in the test set
\* (and in the train set) for both targets.
C10_SameRowPartition ==
    (event.op = "train" /\ event.trained)
        => /\ event.split_time.test = event.split_defects.test
           /\ event.split_time.train = event.split_defects.train

\* A training run that succeeded on a table of several rows, with a test row
\* and train rows for each target.
C10_Witness ==
    /\ event.op = "train"
    /\ event.trained
    /\ event.split_time.test # <<>>
    /\ Len(event.split_time.train) >= 2
    /\ event.split_defects.test # <<>>
    /\ session_state.models # Absent

---------------------------------------------------------------------------
\* The library calls of the training scripts, each applied to given arrays:
\* data holds the arrays, call the call made on them, out what it returned
\* and again what the same call returned when made once more.

\* Largest number of rows of the arrays that are split.
MaxSamples == 6

\* The arrays split: n rows, numbered, and as many targets.
SplitInputs ==
    {[X |-> [i \in 1..n |-> <<Num(i)>>], y |-> [i \in 1..n |-> Num(i)]] :
        n \in 0..MaxSamples}

\* Test fractions 0.2, 0.25 and 0.5 in twentieths, and two seeds.
TestSizes == {TEST_SIZE, TEST_SIZE + 1, OtherTestSize}

RandomStates == {RANDOM_STATE, OtherRandomState}

\* What the run was given: arrays to split, or targets and predictions.
IsSplitInput == DOMAIN data = {"X", "y"}

IsEvalInput == DOMAIN data = {"actual", "predicted"}

\* train_test_split(X, y, test_size=..., random_state=...)
Split ==
    /\ call.op = "none"
    /\ IsSplitInput
    /\ \E test_size \in TestSizes, random_state \in RandomStates :
        LET args == [test_size |-> test_size, random_state |-> random_state]
            n == Len(data.X)
        IN /\ call' = [op |-> "split", args |-> args]
           /\ IF SplitRaises(n, Len(data.y), args)
              THEN out' = [raised |-> TRUE]
              ELSE \E permutation \in Shuffles(random_state, n) :
                      out' = [raised |-> FALSE,
                              ret |-> SplitWith(permutation, n, args)]
    /\ UNCHANGED <<data, again, appVars>>

\* The same call once more, on arrays of the same number of rows.
SplitAgain ==
    /\ call.op = "split"
    /\ call' = [call EXCEPT !.op = "split again"]
    /\ LET n == Len(data.X)
       IN IF SplitRaises(n, Len(data.y), call.args)
          THEN again' = [raised |-> TRUE]
          ELSE \E permutation \in Shuffles(call.args.random_state, n) :
                  again' = [raised |-> FALSE,
                            ret |-> SplitWith(permutation, n, call.args)]
    /\ UNCHANGED <<data, out, appVars>>

\* The metrics of sklearn.metrics on two arrays of numbers.

RECURSIVE SumSquaredErrors(_, _)
SumSquaredErrors(y_true, y_pred) ==
    IF y_true = <<>> THEN Num(0)
    ELSE LET d == RSub(Head(y_true), Head(y_pred))
         IN RAdd(RProd(d, d), SumSquaredErrors(Tail(y_true), Tail(y_pred)))

\* check_consistent_length and check_array: ValueError for arrays of
\* different lengths and for no sample.
MetricRaises(y_true, y_pred) ==
    \/ Len(y_true) # Len(y_pred)
    \/ Len(y_true) = 0

\* mean_squared_error(y_true, y_pred): the mean of the squared differences.
mean_squared_error(y_true, y_pred) ==
    LET q == SumSquaredErrors(y_true, y_pred)
    IN Rat(q[1], q[2] * Len(y_true))

\* A variant giving the ratio itself.
UnexplainedRatio(y_true, y_pred) ==
    LET total == SumSeq(y_true)
        mean == Rat(total[1], total[2] * Len(y_true))
        numerator == SumSquaredErrors(y_true, y_pred)
        denominator == SumSq(y_true, mean)
    IN IF denominator[1] = 0 THEN Num(0)
       ELSE Rat(numerator[1] * denominator[2], numerator[2] * denominator[1])

\* r2_score(y_true, y_pred): 1 - numerator / denominator, with numerator the
\* sum of squared errors and denominator the total sum of squares about the
\* mean of y_true. With a zero denominator the score is 1.0 when the
\* numerator is zero too and 0.0 otherwise. With fewer than two samples the
\* score is NaN, with an UndefinedMetricWarning.
r2_score(y_true, y_pred) ==
    IF Len(y_true) < 2 THEN NaN
    ELSE LET total == SumSeq(y_true)
             mean == Rat(total[1], total[2] * Len(y_true))
             numerator == SumSquaredErrors(y_true, y_pred)
             denominator == SumSq(y_true, mean)
         IN IF denominator[1] # 0
            THEN RSub(Num(1), Rat(numerator[1] * denominator[2],
                                  numerator[2] * denominator[1]))
            ELSE IF numerator[1] = 0 THEN Num(1) ELSE Num(0)

\* print("MSE:", mean_squared_error(y_test, y_pred)) and
\* print("R2:", r2_score(y_test, y_pred)): the two values, or the exception.
evaluate(actual, predicted) ==
    IF MetricRaises(actual, predicted)
    THEN [raised |-> TRUE, warned |-> FALSE, mse |-> NaN, r2 |-> NaN]
    ELSE [raised |-> FALSE,
          warned |-> Len(actual) < 2,
          mse |-> mean_squared_error(actual, predicted),
          r2 |-> r2_score(actual, predicted)]

MaxMetricLen == 3

MetricValues == {Num(5), Num(10), Num(20), Num(30)}

\* The test targets and the predictions for them: arrays of one length.
EvalInputs ==
    {[actual |-> a, predicted |-> q] :
        <<a, q>> \in UNION {[1..n -> MetricValues] \X [1..n -> MetricValues] :
                              n \in 0..MaxMetricLen}}

Evaluate ==
    /\ call.op = "none"
    /\ IsEvalInput
    /\ call' = [op |-> "evaluate"]
    /\ out' = evaluate(data.actual, data.predicted)
    /\ UNCHANGED <<data, again, appVars>>

\* LinearRegression on two feature columns, computed exactly.

RDiv(a, b) ==
    IF b[1] < 0 THEN Rat(-(a[1] * b[2]), a[2] * (-b[1]))
    ELSE Rat(a[1] * b[2], a[2] * b[1])

RECURSIVE Dot(_, _)
Dot(u, v) ==
    IF u = <<>> THEN Num(0)
    ELSE RAdd(RProd(Head(u), Head(v)), Dot(Tail(u), Tail(v)))

SeqMean(s) == LET total == SumSeq(s) IN Rat(total[1], total[2] * Len(s))

Centred(s) == LET m == SeqMean(s) IN [i \in DOMAIN s |-> RSub(s[i], m)]

\* The centred problem: the Gram matrix [[a, b], [b, c]] of the centred
\* columns and their products [p, q] with the centred target.
CentredProblem(X, y) ==
    LET c1 == Centred([i \in DOMAIN X |-> X[i][1]])
        c2 == Centred([i \in DOMAIN X |-> X[i][2]])
        cy == Centred(y)
    IN [a |-> Dot(c1, c1), b |-> Dot(c1, c2), c |-> Dot(c2, c2),
        p |-> Dot(c1, cy), q |-> Dot(c2, cy)]

Determinant(g) == RSub(RProd(g.a, g.c), RProd(g.b, g.b))

\* A solver of the normal equations by inversion: no solution for a singular
\* Gram matrix.
InvertGram(g) ==
    LET det == Determinant(g)
    IN IF det[1] = 0 THEN [aborted |-> TRUE, coef |-> <<>>]
       ELSE [aborted |-> FALSE,
             coef |-> <<RDiv(RSub(RProd(g.c, g.p), RProd(g.b, g.q)), det),
                        RDiv(RSub(RProd(g.a, g.q), RProd(g.b, g.p)), det)>>]

\* scipy.linalg.lstsq on the centred data: the least-squares solution, and
\* the one of least norm when the columns are linearly dependent, which is
\* the pseudo-inverse of the Gram matrix (G / trace(G)^2 when G has rank 1,
\* zero when G is zero) applied to [p, q].
Lstsq(g) ==
    LET det == Determinant(g)
        trace == RAdd(g.a, g.c)
    IN IF det[1] # 0
       THEN [aborted |-> FALSE,
             coef |-> <<RDiv(RSub(RProd(g.c, g.p), RProd(g.b, g.q)), det),
                        RDiv(RSub(RProd(g.a, g.q), RProd(g.b, g.p)), det)>>]
       ELSE IF trace[1] # 0
       THEN [aborted |-> FALSE,
             coef |-> <<RDiv(RAdd(RProd(g.a, g.p), RProd(g.b, g.q)),
                             RProd(trace, trace)),
                        RDiv(RAdd(RProd(g.b, g.p), RProd(g.c, g.q)),
                             RProd(trace, trace))>>]
       ELSE [aborted |-> FALSE, coef |-> <<Num(0), Num(0)>>]

\* model.fit(x_train, y_train): ValueError for no sample or arrays of
\* different lengths; else coef_ from the centred problem and
\* intercept_ = mean(y) - mean(X) . coef_.
fit(X, y) ==
    IF Len(X) = 0 \/ Len(X) # Len(y)
    THEN [raised |-> TRUE]
    ELSE LET solved == Lstsq(CentredProblem(X, y))
         IN IF solved.aborted THEN [raised |-> TRUE]
            ELSE [raised |-> FALSE,
                  coef |-> solved.coef,
                  intercept |->
                    RSub(RSub(SeqMean(y),
                              RProd(solved.coef[1],
                                    SeqMean([i \in DOMAIN X |-> X[i][1]]))),
                         RProd(solved.coef[2],
                               SeqMean([i \in DOMAIN X |-> X[i][2]])))]

\* model.predict(X): intercept_ + X . coef_
predict(model, X) ==
    [i \in DOMAIN X |->
        RAdd(model.intercept,
             RAdd(RProd(model.coef[1], X[i][1]),
                  RProd(model.coef[2], X[i][2])))]

MaxFitRows == 3

\* The rows of the two inputs: [[1,1],[2,2],[3,3]] and x1 = [1, 2, 3],
\* x2 = [2, 1, 4].
FeatureRows ==
    {<<Num(1), Num(1)>>, <<Num(2), Num(2)>>, <<Num(3), Num(3)>>,
     <<Num(1), Num(2)>>, <<Num(2), Num(1)>>, <<Num(3), Num(4)>>}

\* The targets: y = 2*x1 + 1, the Output column 1 + 3*x1 + x2 of the sample
\* ([6, 8, 14]), and a target no plane fits, x1 * x2.
Laws == {"2*x1 + 1", "1 + 3*x1 + x2", "x1 * x2"}

Target(law, row) ==
    IF law = "2*x1 + 1" THEN Num(2 * row[1][1] + 1)
    ELSE IF law = "1 + 3*x1 + x2" THEN Num(1 + 3 * row[1][1] + row[2][1])
    ELSE Num(row[1][1] * row[2][1])

FitInputs ==
    {[X |-> X, y |-> [i \in DOMAIN X |-> Target(law, X[i])], law |-> law] :
        <<X, law>> \in (UNION {[1..n -> FeatureRows] : n \in 0..MaxFitRows})
                        \X Laws}

IsFitInput == DOMAIN data = {"X", "y", "law"}

\* model = LinearRegression(); model.fit(x_train, y_train)
FitModel ==
    /\ call.op = "none"
    /\ IsFitInput
    /\ call' = [op |-> "fit"]
    /\ out' = fit(data.X, data.y)
    /\ UNCHANGED <<data, again, appVars>>

\* y_pred = model.predict(x_test), with x_test = x_train
PredictTraining ==
    /\ call.op = "fit"
    /\ ~out.raised
    /\ call' = [op |-> "predict"]
    /\ again' = [ret |-> predict(out, data.X)]
    /\ UNCHANGED <<data, out, appVars>>

TrainInit ==
    /\ data \in (SplitInputs \cup EvalInputs \cup FitInputs)
    /\ call = NoCall
    /\ out = NoResult
    /\ again = NoResult
    /\ upload = Absent
    /\ session_state = EmptySession
    /\ event = NoEvent

TrainNext ==
    \/ Split
    \/ SplitAgain
    \/ Evaluate
    \/ FitModel
    \/ PredictTraining

TrainSpec == TrainInit /\ [][TrainNext]_vars

---------------------------------------------------------------------------
\* Properties of the library calls (checked under TrainSpec).

CeilOf(test_size, n) == (test_size * n + 19) \div 20

\* round(f * n), a half going to the even neighbour as Python's round does.
RoundOf(test_size, n) ==
    LET q == (test_size * n) \div 20
        r == (test_size * n) % 20
    IN IF r < 10 THEN q
       ELSE IF r > 10 THEN q + 1
       ELSE IF q % 2 = 0 THEN q ELSE q + 1

\* The two partitions are disjoint and together hold every row position
\* 1..n exactly once.
IsPartition(ret, n) ==
    LET all == ret.test \o ret.train
    IN /\ Len(all) = n
       /\ Range(all) = 1..n

\* C12 as stated: split puts round(f*n) rows in the test partition and the
\* other n - round(f*n) rows in the train partition, the two being disjoint
\* and together holding every row exactly once.
C12_TestSizeRounded ==
    (call.op = "split" /\ ~out.raised) =>
        LET n == Len(data.X)
        IN
            /\ Len(out.ret.test) = RoundOf(call.args.test_size, n)
            /\ Len(out.ret.train) = n - RoundOf(call.args.test_size, n)
            /\ IsPartition(out.ret, n)

\* C12 as it holds: split puts ceil(f*n) rows in the test partition and the
\* other n - ceil(f*n) rows in the train partition, the two being disjoint
\* and together holding every row exactly once; it fails (ValueError) exactly
\* when that would leave the train partition empty.
C12_TestSizeCeiling ==
    call.op = "split" =>
        LET n == Len(data.X)
            n_test == CeilOf(call.args.test_size, n)
        IN /\ out.raised <=> n - n_test = 0
           /\ ~out.raised =>
                /\ Len(out.ret.test) = n_test
                /\ Len(out.ret.train) = n - n_test
                /\ IsPartition(out.ret, n)

\* C12's case: a split where rounding up and rounding to nearest differ.
C12_Witness ==
    /\ call.op = "split"
    /\ ~out.raised
    /\ Len(out.ret.test) >= 2
    /\ Len(out.ret.test) # RoundOf(call.args.test_size, Len(data.X))


---------------------------------------------------------------------------
\* The pipeline drivers: dataset_scaling.py run as a script and the
\* statements at the end of CovidEDA.py. data is the table the driver loaded,
\* call says which driver runs and the line it has reached, and out is the
\* list of the stages run so far, each with the table it was given and the
\* table it produced. dataset_scaling.py's set_data calls (lines 42, 48)
\* save a table to a file; no later stage of the driver reads the loader's
\* table or the file, and they are left out.

DriverColumns == <<ColTestCaseCount, ColCodeChurn, ColExecutionTimePrevious>>

Stage(stage, given, ret) == [stage |-> stage, given |-> given, ret |-> ret]

At(driver, line) == [driver |-> driver, line |-> line]

\* data_scaler = DataScaler(raw_data_path) / data = report._load_data()
DriverInit ==
    /\ data \in (LoadedTables \cup CovidTables)
    /\ call = IF data.columns = CleanColumns THEN At("dataset_scaling", 35)
              ELSE At("CovidEDA", 89)
    /\ out = <<>>
    /\ again = NoResult
    /\ upload = Absent
    /\ session_state = EmptySession
    /\ event = NoEvent

\* cleaned_data_without_blanks = data_scaler.fill_missing_values()
DriverFillMissingValues ==
    /\ call = At("dataset_scaling", 35)
    /\ call' = At("dataset_scaling", 39)
    /\ out' = Append(out, Stage("fill", data,
                                script_fill_missing_values(data).ret))
    /\ UNCHANGED <<data, again, appVars>>

\* cleaned_data_without_outliers =
\*     data_scaler.remove_outliers(cleaned_data_without_blanks, columns)
DriverRemoveOutliers ==
    /\ call = At("dataset_scaling", 39)
    /\ call' = At("dataset_scaling", 45)
    /\ LET cleaned_data_without_blanks == out[Len(out)].ret
       IN out' = Append(out, Stage("outliers", cleaned_data_without_blanks,
                    script_remove_outliers(cleaned_data_without_blanks,
                                           DriverColumns).ret))
    /\ UNCHANGED <<data, again, appVars>>

\* scaled_data = data_scaler.scale_data(cleaned_data_without_outliers)
DriverScaleData ==
    /\ call = At("dataset_scaling", 45)
    /\ call' = At("dataset_scaling", 50)
    /\ LET cleaned_data_without_outliers == out[Len(out)].ret
       IN out' = Append(out, Stage("scale", cleaned_data_without_outliers,
                    script_scale_data(cleaned_data_without_outliers).ret))
    /\ UNCHANGED <<data, again, appVars>>

\* report.outlier_detection(data): the cleaned table is printed and saved,
\* and the call's value is dropped.
CovidDriverOutlierDetection ==
    /\ call = At("CovidEDA", 89)
    /\ call' = At("CovidEDA", 90)
    /\ out' = Append(out, Stage("outliers", data, outlier_detection(data).ret))
    /\ UNCHANGED <<data, again, appVars>>

\* report.normalization_scalar_standardization(data):
\* scaler.fit_transform(data) of the table loaded.
CovidDriverNormalization ==
    /\ call = At("CovidEDA", 90)
    /\ call' = At("CovidEDA", 91)
    /\ out' = Append(out, Stage("scale", data,
                                FitTransform(data, CovidColumns)))
    /\ UNCHANGED <<data, again, appVars>>

DriverNext ==
    \/ DriverFillMissingValues
    \/ DriverRemoveOutliers
    \/ DriverScaleData
    \/ CovidDriverOutlierDetection
    \/ CovidDriverNormalization

DriverSpec == DriverInit /\ [][DriverNext]_vars

StageOrder == <<"fill", "outliers", "scale", "train">>

StageRank(stage) == CHOOSE i \in DOMAIN StageOrder : StageOrder[i] = stage

\* C13: in every pipeline driver the stages run in the order fill, remove
\* outliers, scale, train, and each stage is given the table returned by the
\* stage before it (the first one the table loaded): the table scaled is the
\* outlier-filtered output.
C13_StagesChained ==
    \A i \in DOMAIN out :
        /\ out[i].given = IF i = 1 THEN data ELSE out[i - 1].ret
        /\ i > 1 => StageRank(out[i - 1].stage) < StageRank(out[i].stage)

\* C13, the driver of dataset_scaling.py alone: its stages are chained.
C13_ScriptDriverChained ==
    call.driver = "dataset_scaling" => C13_StagesChained

\* The script driver has scaled a table that lost a row to the outlier
\* removal and had a missing value filled.
C13_Witness ==
    /\ call = At("dataset_scaling", 50)
    /\ out[1].ret # data
    /\ Len(out[2].ret.rows) < Len(out[1].ret.rows)
    /\ out[3].given = out[2].ret



---------------------------------------------------------------------------
\* The stage operations with the tables as objects. data is the list of the
\* table objects alive, an object being named by its position: object
\* SelfData is the loader's self.data and object Passed is a copy of it held
\* by the caller (cd.get_data().copy()), the one handed to remove_outliers
\* and scale_data. call is the stage called, with the object it was given,
\* and out the object it returned, whether it caught an exception, and the
\* objects as they were before the call.

SelfData == 1

Passed == 2

\* data.copy() and the filters yield a new object; the except branches of
\* app.py return an object that exists already.
Allocate(objects, table) ==
    [objects |-> Append(objects, table), ret |-> Len(objects) + 1]

Existing(objects, object) == [objects |-> objects, ret |-> object]

ObjectCall(op, impl, given) ==
    [op |-> op, impl |-> impl, given |-> given, changed |-> FALSE]

ObjectResult(r, failed, before) ==
    [ret |-> r.ret, objects |-> r.objects, failed |-> failed,
     before |-> before]

\* The loaded tables followed as objects: those of fewer than MaxRows rows.
ObjectTables == {t \in LoadedTables : Len(t.rows) < MaxRows}

ObjectInit ==
    /\ \E t \in ObjectTables : data = <<t, t>>
    /\ call = ObjectCall("none", "none", SelfData)
    /\ out = [ret |-> SelfData, failed |-> FALSE, before |-> <<>>]
    /\ again = NoResult
    /\ upload = Absent
    /\ session_state = EmptySession
    /\ event = NoEvent

\* app.py fill_missing_values: return data_cleaned, the copy, or after an
\* exception return self.get_data(), which is self.data.
app_fill_object(objects, numeric_only) ==
    LET r == fill_missing_values(objects[SelfData], numeric_only)
    IN ObjectResult(IF r.failed THEN Existing(objects, SelfData)
                    ELSE Allocate(objects, r.ret), r.failed, objects)

\* dataset_cleaning.py fill_missing_values: return data_cleaned, the copy.
script_fill_object(objects) ==
    LET r == script_fill_missing_values(objects[SelfData])
    IN ObjectResult(Allocate(objects, r.ret), r.failed, objects)

\* app.py remove_outliers: return df, or after an exception return
\* data_cleaned, the argument.
app_remove_outliers_object(objects, given, columns) ==
    LET r == remove_outliers(objects[given], columns)
    IN ObjectResult(IF r.failed THEN Existing(objects, given)
                    ELSE Allocate(objects, r.ret), r.failed, objects)

\* dataset_cleaning.py remove_outliers: return data_outliers_removed, the
\* copy, as far as it was filtered.
script_remove_outliers_object(objects, given, columns) ==
    LET r == script_remove_outliers(objects[given], columns)
    IN ObjectResult(Allocate(objects, r.ret), r.failed, objects)

\* app.py scale_data: return data_scaled, or after an exception return data,
\* the argument.
app_scale_object(objects, given, columns) ==
    LET r == scale_data(objects[given], columns)
    IN ObjectResult(IF r.failed THEN Existing(objects, given)
                    ELSE Allocate(objects, r.ret), r.failed, objects)

\* dataset_scaling.py scale_data: return data_scaled, the copy.
script_scale_object(objects, given) ==
    LET r == script_scale_data(objects[given])
    IN ObjectResult(Allocate(objects, r.ret), r.failed, objects)

Returns(c, r) ==
    /\ call.op = "none"
    /\ call' = c
    /\ out' = [ret |-> r.ret, failed |-> r.failed, before |-> r.before]
    /\ data' = r.objects
    /\ UNCHANGED <<again, appVars>>

ObjectAppFill ==
    \E numeric_only \in BOOLEAN :
        \E r \in {app_fill_object(data, numeric_only)} :
            Returns(ObjectCall("fill", "app", SelfData), r)

ObjectScriptFill ==
    \E r \in {script_fill_object(data)} :
        Returns(ObjectCall("fill", "script", SelfData), r)

ObjectAppRemoveOutliers ==
    \E columns \in ColumnLists :
        \E r \in {app_remove_outliers_object(data, Passed, columns)} :
            Returns(ObjectCall("outliers", "app", Passed), r)

ObjectScriptRemoveOutliers ==
    \E columns \in ColumnLists :
        \E r \in {script_remove_outliers_object(data, Passed, columns)} :
            Returns(ObjectCall("outliers", "script", Passed), r)

ObjectAppScale ==
    \E columns \in ScaleSelections :
        \E r \in {app_scale_object(data, Passed, columns)} :
            Returns(ObjectCall("scale", "app", Passed), r)

ObjectScriptScale ==
    \E r \in {script_scale_object(data, Passed)} :
        Returns(ObjectCall("scale", "script", Passed), r)

\* df[column] = value on a table object: every row's cell is replaced.
AssignColumn(t, column, value) ==
    [t EXCEPT !.rows = [i \in DOMAIN t.rows |->
        [t.rows[i] EXCEPT !.cells[column] = value]]]

\* A later change, in place, of the table a stage returned.
ChangeReturned ==
    /\ call.op # "none"
    /\ ~call.changed
    /\ call' = [call EXCEPT !.changed = TRUE]
    /\ data' = [data EXCEPT ![out.ret] = AssignColumn(@, ColCodeChurn, Num(2))]
    /\ UNCHANGED <<out, again, appVars>>

ObjectNext ==
    \/ ObjectAppFill
    \/ ObjectScriptFill
    \/ ObjectAppRemoveOutliers
    \/ ObjectScriptRemoveOutliers
    \/ ObjectAppScale
    \/ ObjectScriptScale
    \/ ChangeReturned

ObjectSpec == ObjectInit /\ [][ObjectNext]_vars

\* The loader's table and the table passed in are as they were before the
\* call, and the table returned is neither of them.
SeparateCopy ==
    /\ data[SelfData] = out.before[SelfData]
    /\ data[Passed] = out.before[Passed]
    /\ out.ret \notin {SelfData, Passed}

\* C14: each stage operation leaves the table passed to it and the loader's
\* table unchanged and returns a separate copy, so that a later change of
\* the returned table shows in neither.
C14_ReturnsSeparateCopy ==
    call.op # "none" => SeparateCopy

\* C14 for the calls that caught no exception, and for every call of the
\* scripts' stages.
C14_CopyUnlessAppFailed ==
    (call.op # "none" /\ (call.impl = "script" \/ ~out.failed)) => SeparateCopy

\* An outlier removal returned a table with fewer rows than it was given, and
\* the returned table was changed afterwards.
C14_Witness ==
    /\ call.changed
    /\ ~out.failed
    /\ call.op = "outliers"
    /\ Len(data[out.ret].rows) < Len(data[Passed].rows)
    /\ SeparateCopy



---------------------------------------------------------------------------
\* One scaler object used more than once. data is the table of the first
\* scale_data call, out that call's result with the parameters the scaler
\* holds after it, and again the result of a later call of the same object
\* on another table, again.given. standardscaler.py is followed too: its
\* array is data, out is fit_transform's value, and again is transform's
\* after the fit of line 11.

\* StandardScaler.transform: (X - mean_) / scale_ with the parameters the
\* scaler holds; scale_ is sqrt(var_), and 1 for a column of variance 0.
Transform(t, columns, params) ==
    [t EXCEPT !.rows =
        [i \in DOMAIN t.rows |->
            [t.rows[i] EXCEPT !.cells =
                [c \in DOMAIN @ |->
                    IF c \in Range(columns) THEN Standardize(@[c], params[c])
                    ELSE @[c]]]]]

\* data = np.array([[1, 2], [3, 4], [5, 6]])
SampleColumns == <<"0", "1">>

SampleArray ==
    ReadCsv(SampleColumns, Range(SampleColumns),
            << [c \in Range(SampleColumns) |-> IF c = "0" THEN Num(1) ELSE Num(2)],
               [c \in Range(SampleColumns) |-> IF c = "0" THEN Num(3) ELSE Num(4)],
               [c \in Range(SampleColumns) |-> IF c = "0" THEN Num(5) ELSE Num(6)] >>)

\* The tables of a first call, and the tables of new rows scaled later.
FirstTables == {t \in LoadedTables : Len(t.rows) < MaxRows}

LaterTables == {t \in LoadedTables : Len(t.rows) = 1}

ScalerInit ==
    /\ data \in (FirstTables \cup {SampleArray})
    /\ call = NoCall
    /\ out = NoResult
    /\ again = NoResult
    /\ upload = Absent
    /\ session_state = EmptySession
    /\ event = NoEvent

\* scaler.scale_data(cleaned_df, columns=chosen_cols) on a new DataScaler
ScalerAppScale ==
    \E columns \in ScaleSelections :
        /\ call.op = "none"
        /\ data.columns = CleanColumns
        /\ call' = Call("scale", "app", columns, TRUE)
        /\ out' = scale_data(data, columns)
        /\ UNCHANGED <<data, again, appVars>>

\* data_scaler.scale_data(cleaned_data_without_outliers) on a new DataScaler
ScalerScriptScale ==
    /\ call.op = "none"
    /\ data.columns = CleanColumns
    /\ call' = Call("scale", "script", NumericColumns(data), TRUE)
    /\ out' = script_scale_data(data)
    /\ UNCHANGED <<data, again, appVars>>

\* scale_data of the same object on another table: self.scaler.fit_transform
\* again. A call that raises inside fit_transform leaves the parameters.
scale_later(impl, columns, given, held) ==
    LET r == IF impl = "app" THEN scale_data(given, columns)
             ELSE script_scale_data(given)
    IN [ret |-> r.ret, failed |-> r.failed, raised |-> FALSE,
        params |-> IF r.failed THEN held ELSE r.params, given |-> given]

ScalerScaleLater ==
    \E given \in LaterTables :
        /\ call.op = "scale"
        /\ call' = [call EXCEPT !.op = "scale later"]
        /\ again' = scale_later(call.impl, call.columns, given, out.params)
        /\ UNCHANGED <<data, out, appVars>>

\* trained_scaler = scaler.fit_transform(data)
SampleFitTransform ==
    /\ call.op = "none"
    /\ data = SampleArray
    /\ call' = Call("sample fit_transform", "sample", SampleColumns, TRUE)
    /\ out' = [ret |-> FitTransform(data, SampleColumns), failed |-> FALSE,
               raised |-> FALSE, params |-> Fit(data, SampleColumns)]
    /\ UNCHANGED <<data, again, appVars>>

\* trained_scaler1 = scaler.fit(data)
SampleFit ==
    /\ call.op = "sample fit_transform"
    /\ call' = [call EXCEPT !.op = "sample fit"]
    /\ out' = [out EXCEPT !.params = Fit(data, SampleColumns)]
    /\ UNCHANGED <<data, again, appVars>>

\* trained_scaler2 = scaler.transform(data)
SampleTransform ==
    /\ call.op = "sample fit"
    /\ call' = [call EXCEPT !.op = "sample transform"]
    /\ again' = [ret |-> Transform(data, SampleColumns, out.params),
                 failed |-> FALSE, raised |-> FALSE, params |-> out.params,
                 given |-> data]
    /\ UNCHANGED <<data, out, appVars>>

ScalerNext ==
    \/ ScalerAppScale
    \/ ScalerScriptScale
    \/ ScalerScaleLater
    \/ SampleFitTransform
    \/ SampleFit
    \/ SampleTransform

ScalerSpec == ScalerInit /\ [][ScalerNext]_vars

\* C15: the parameters a scaler fitted stay as they are when the scaler
\* scales another table with the same columns, and that table is transformed
\* with them.
C15_ParametersKept ==
    (call.op = "scale later" /\ ~out.failed /\ ~again.failed) =>
        /\ again.params = out.params
        /\ again.ret = Transform(again.given, call.columns, out.params)

\* C15 as the code has it: a later scale_data that does not fail refits, and
\* the table is transformed with the parameters of the later table.
C15_Refitted ==
    (call.op = "scale later" /\ ~out.failed /\ ~again.failed) =>
        /\ again.params = Fit(again.given, call.columns)
        /\ again.ret = Transform(again.given, call.columns, again.params)

\* A scaler fitted on a table of mean 1/2 scaled a later row holding 1.
C15_Witness ==
    /\ call.op = "scale later"
    /\ ~out.failed
    /\ ~again.failed
    /\ ColTestCaseCount \in DOMAIN out.params
    /\ out.params[ColTestCaseCount].mean = Rat(1, 2)
    /\ again.given.rows[1].cells[ColTestCaseCount] = Num(1)



\* The scaler's scale_ for one column, as its square: var_, and 1 for a
\* column of variance 0.
ScaleSquared(p) == IF p.var[1] = 0 THEN Num(1) ELSE p.var

\* (x - mean) / std from the parameters alone: the difference over the square
\* root of scale squared, a missing cell (or mean) giving a missing cell.
ZScore(x, mean, scale_squared) ==
    IF IsNaN(x) \/ IsNaN(mean) THEN NaN
    ELSE <<Rat(x[1] * mean[2] - mean[1] * x[2], x[2] * mean[2])[1],
           Rat(x[1] * mean[2] - mean[1] * x[2], x[2] * mean[2])[2],
           scale_squared[1], scale_squared[2]>>

\* The table with the z-scores recomputed in the selected columns and every
\* other cell as it was.
Recomputed(t, columns, params) ==
    [columns |-> t.columns,
     numeric |-> t.numeric,
     rows |-> [i \in DOMAIN t.rows |->
        [idx |-> t.rows[i].idx,
         cells |-> [c \in Range(t.columns) |->
            IF c \in Range(columns)
            THEN ZScore(t.rows[i].cells[c], params[c].mean,
                        ScaleSquared(params[c]))
            ELSE t.rows[i].cells[c]]]]]

---------------------------------------------------------------------------
\* The metrics.

AllEqual(s) == \A i, j \in DOMAIN s : s[i] = s[j]

\* C17: evaluate signals an undefined R2 when the actual values are constant
\* (an exception, a warning or a missing value), instead of returning a number.
C17_ConstantActualSignalled ==
    (call.op = "evaluate" /\ data.actual # <<>> /\ AllEqual(data.actual)) =>
        (out.raised \/ out.warned \/ IsNaN(out.r2))

\* C17 as the code has it: for two or more constant actual values r2_score
\* returns 1 when every prediction is exact and 0 otherwise, unsignalled.
C17_ConstantActualScored ==
    (call.op = "evaluate" /\ Len(data.actual) >= 2 /\ AllEqual(data.actual)) =>
        /\ ~out.raised
        /\ ~out.warned
        /\ out.r2 = IF data.predicted = data.actual THEN Num(1) ELSE Num(0)

\* C18: evaluate returns MSE = 0 and R2 = 1 whenever the predicted values
\* equal the actual values element by element and the actual values are not
\* all equal.
C18_PerfectPrediction ==
    (call.op = "evaluate" /\ data.predicted = data.actual
        /\ ~AllEqual(data.actual)) =>
        /\ ~out.raised
        /\ out.mse = Num(0)
        /\ out.r2 = Num(1)

\* evaluate was called with actual = predicted = [10, 20, 30].
C18_Witness ==
    /\ call.op = "evaluate"
    /\ data.actual = <<Num(10), Num(20), Num(30)>>
    /\ data.predicted = data.actual
    /\ out.mse = Num(0)
    /\ out.r2 = Num(1)



---------------------------------------------------------------------------
\* Fitting.

Collinear(X) == \A i \in DOMAIN X : X[i][1] = X[i][2]

\* C19: on a collinear input with y = 2*x1 + 1, such as X = [[1,1],[2,2],
\* [3,3]], y = [3,5,7], fit does not abort, and fit followed by predict on
\* the same X returns y, the prediction being intercept + coefficients . row.
C19_CollinearFitReproduces ==
    /\ (call.op \in {"fit", "predict"} /\ IsFitInput /\ data.X # <<>>
            /\ Collinear(data.X) /\ data.law = "2*x1 + 1") => ~out.raised
    /\ (call.op = "predict" /\ Collinear(data.X) /\ data.law = "2*x1 + 1") =>
            again.ret = data.y

\* fit and predict ran on X = [[1,1],[2,2],[3,3]], y = [3,5,7]: coefficients
\* [1, 1], intercept 1, predictions [3, 5, 7].
C19_Witness ==
    /\ call.op = "predict"
    /\ data.X = <<<<Num(1), Num(1)>>, <<Num(2), Num(2)>>, <<Num(3), Num(3)>>>>
    /\ data.y = <<Num(3), Num(5), Num(7)>>
    /\ out.coef = <<Num(1), Num(1)>>
    /\ out.intercept = Num(1)
    /\ again.ret = <<Num(3), Num(5), Num(7)>>



---------------------------------------------------------------------------
\* Loading. upload is the source handed to the program, call the way it was
\* loaded, and out what came of it: the loader object if one was made, with
\* its data (None is Absent), the exception that left the loading code, and
\* the message shown.

\* The sources: files pd.read_csv reads, and files it raises on (a file that
\* cannot be opened, a file that is no CSV).
CsvFile(t) == [kind |-> "csv", table |-> t]

Sources ==
    {CsvFile(t) : t \in FirstTables}
        \cup {[kind |-> "unreadable"], [kind |-> "malformed"]}

ReadRaises(source) == source.kind # "csv"

Loader(loaded) == [data |-> loaded]

LoadResult(loader, raised, shown) ==
    [loader |-> loader, raised |-> raised, shown |-> shown]

\* DatasetLoader(file_path=...): self.data = None, then pd.read_csv in a try
\* block whose except branch shows the error; the object is made either way.
load_from_path(source) ==
    IF ReadRaises(source)
    THEN LoadResult(Present(Loader(Absent)), "", "Error loading dataset")
    ELSE LoadResult(Present(Loader(Present(source.table))), "", "")

\* DatasetLoader(dataframe=df): self.data = dataframe.copy()
load_from_dataframe(dataframe) ==
    LoadResult(Present(Loader(Present(dataframe))), "", "")

\* The upload code: pd.read_csv(upload) in a try block whose except branch
\* shows the error and sets df_initial = None; a loader is made only when
\* df_initial is not None.
load_upload(source) ==
    IF ReadRaises(source)
    THEN LoadResult(Absent, "", "Upload error")
    ELSE load_from_dataframe(source.table)

LoadInit ==
    /\ upload \in Sources
    /\ call = [op |-> "none"]
    /\ out = LoadResult(Absent, "", "")
    /\ data = NoTable
    /\ again = NoResult
    /\ session_state = EmptySession
    /\ event = NoEvent

LoadFromPath ==
    /\ call.op = "none"
    /\ call' = [op |-> "path"]
    /\ out' = load_from_path(upload)
    /\ UNCHANGED <<data, again, upload, session_state, event>>

LoadUpload ==
    /\ call.op = "none"
    /\ call' = [op |-> "upload"]
    /\ out' = load_upload(upload)
    /\ UNCHANGED <<data, again, upload, session_state, event>>

\* df = loader.get_data(): self.data, whatever it is.
GetData ==
    /\ call.op \in {"path", "upload"}
    /\ out.loader # Absent
    /\ call' = [call EXCEPT !.op = call.op \o " get_data"]
    /\ data' = IF out.loader[1].data = Absent THEN NoTable
               ELSE out.loader[1].data[1]
    /\ UNCHANGED <<out, again, upload, session_state, event>>

LoadNext ==
    \/ LoadFromPath
    \/ LoadUpload
    \/ GetData

LoadSpec == LoadInit /\ [][LoadNext]_vars

HoldsNoTable(result) ==
    result.loader # Absent /\ result.loader[1].data = Absent

\* C20: loading from an unreadable or malformed source fails with a
\* DataLoadError, and no loader object exists holding no table afterwards.
C20_LoadFailureRaises ==
    (call.op # "none" /\ ReadRaises(upload)) =>
        /\ out.raised = "DataLoadError"
        /\ ~HoldsNoTable(out)

\* C20 for the upload code alone: after a failed read no loader is made, and
\* the error is shown, not raised.
C20_UploadMakesNoEmptyLoader ==
    (call.op \in {"upload", "upload get_data"}) =>
        /\ ~HoldsNoTable(out)
        /\ ReadRaises(upload) => (out.loader = Absent /\ out.shown # ""
                                  /\ out.raised = "")



---------------------------------------------------------------------------
\* The app's session over sequences of clicks.

\* The guards of the train_button handler, on the session at the click and
\* the widgets' values.
TrainGuards(session, sel) ==
    /\ session.scaled_df # Absent
    /\ session.cleaned_df # Absent
    /\ sel.selected_features # <<>>
    /\ sel.target_time # <<>>
    /\ sel.target_defects # <<>>

\* C22: over any sequence of clicks, a scaling happens only with a cleaned
\* table in the session, and a fit happens only when the session holds a
\* scaled and a cleaned table, a feature is selected and both targets are;
\* otherwise the train click reports an error and leaves the session as it
\* was.
C22_StagesGuarded ==
    [][/\ event'.op = "scale" => session_state.cleaned_df # Absent
       /\ event'.op = "train" =>
            IF TrainGuards(session_state, event'.sel)
            THEN event'.trained \/ event'.error # ""
            ELSE /\ ~event'.trained
                 /\ event'.error # ""
                 /\ session_state' = session_state]_vars

\* A train click with no feature selected, in a session holding a scaled
\* table, was refused: nothing was fitted.
C22_Witness ==
    /\ event.op = "train"
    /\ ~event.trained
    /\ event.error = "Pick at least one feature column."
    /\ session_state.scaled_df # Absent
    /\ session_state.models = Absent



\* The index labels of a table's rows, in order.
Labels(t) == [i \in DOMAIN t.rows |-> t.rows[i].idx]

\* The table is what the scale click gives for that cleaned table, for some
\* choice of columns.
IsScalingOf(scaled_df, cleaned_df) ==
    \E chosen_cols \in ScaleChoices(cleaned_df) :
        scale_button(cleaned_df, chosen_cols).scaled = scaled_df

\* C23: whenever a fit runs, the scaled table in the session (the features)
\* is the scaling of the cleaned table in the session (the targets), so both
\* have the same rows in the same order, also when cleaning was run again
\* after scaling.
C23_ScaledFromCurrentCleaned ==
    (event.op = "train" /\ event.trained) =>
        /\ IsScalingOf(session_state.scaled_df[1], session_state.cleaned_df[1])
        /\ Labels(session_state.scaled_df[1]) = Labels(session_state.cleaned_df[1])

\* C23, the rows alone: in a session that keeps to one uploaded file, a fit
\* runs only on a scaled and a cleaned table of the same rows in the same
\* order (tables of different lengths make the split raise).
C23_SameRowsWithinOneUpload ==
    (event.op = "train" /\ event.trained) =>
        Labels(session_state.scaled_df[1]) = Labels(session_state.cleaned_df[1])



\* The stored predictions are those of the stored models.
SameTrainingRun(models, last_eval) ==
    /\ last_eval.y_pred_time.model = models.time_model
    /\ last_eval.y_pred_defects.model = models.defect_model
    /\ last_eval.y_pred_time.X = last_eval.y_pred_defects.X
    /\ Len(last_eval.y_test_time) = Len(last_eval.y_pred_time.X)
    /\ Len(last_eval.y_test_defects) = Len(last_eval.y_pred_defects.X)

\* C24: in every session state models and last_eval are both absent, or both
\* present and of the same training run; and a training attempt that fails
\* leaves both as they were.
C24_ModelsAndEvalTogether ==
    /\ [](/\ (session_state.models = Absent) <=> (session_state.last_eval = Absent)
          /\ session_state.models # Absent =>
                SameTrainingRun(session_state.models[1],
                                session_state.last_eval[1]))
    /\ [][(event'.op = "train" /\ ~event'.trained) =>
            /\ session_state'.models = session_state.models
            /\ session_state'.last_eval = session_state.last_eval]_vars

\* A training attempt failed in a session that holds the models and the
\* evaluation of an earlier run.
C24_Witness ==
    /\ event.op = "train"
    /\ ~event.trained
    /\ session_state.models # Absent
    /\ session_state.last_eval # Absent



---------------------------------------------------------------------------
\* Several sessions of the app at once. Each browser session runs the script
\* on its own; upload[s] is the file of session s, session_state[k] the
\* contents of the session store k, and event the last click, with the
\* session it came from and the store its handler used.

Sessions == {1, 2}

\* A handler using one store, whatever the session.
OneStore(s) == 1

\* st.session_state in a run of the script: the store of the session the run
\* belongs to.
Store(s) == s

\* The file a session uploads: a missing cell and an outlier in session 1,
\* zeros then ones in session 2.
SessionFile(s) ==
    ReadCsv(AppColumns, Range(AppColumns) \ {ColModule},
            [i \in 1..MaxRows |->
                AppRowCells(i,
                    IF s = 1
                    THEN (IF i = 1 THEN NaN
                          ELSE IF i = MaxRows THEN Num(1) ELSE Num(0))
                    ELSE (IF 2 * i <= MaxRows THEN Num(0) ELSE Num(1)))])

\* The widget values tried at a train click: the defaults, and no feature.
SessionSelections ==
    {Selection(FEATURE_COLUMNS, <<TARGET_TIME>>, <<TARGET_DEFECTS>>,
               TEST_SIZE, RANDOM_STATE),
     Selection(<<>>, <<TARGET_TIME>>, <<TARGET_DEFECTS>>,
               TEST_SIZE, RANDOM_STATE)}

SessionEvent(s, e) == [session |-> s, store |-> Store(s), e |-> e]

SessionsInit ==
    /\ upload = [s \in Sessions |-> Absent]
    /\ session_state = [k \in Sessions |-> EmptySession]
    /\ event = SessionEvent(1, NoEvent)
    /\ data = NoTable
    /\ call = NoCall
    /\ out = NoResult
    /\ again = NoResult

SessionUpload(s) ==
    /\ upload[s] = Absent
    /\ upload' = [upload EXCEPT ![s] = Present(SessionFile(s))]
    /\ event' = SessionEvent(s, [op |-> "upload"])
    /\ UNCHANGED <<session_state, stageVars>>

SessionRunClean(s) ==
    /\ upload[s] # Absent
    /\ \E fill_mean \in BOOLEAN :
        \E r \in {run_clean(upload[s][1], fill_mean, TRUE, <<ColTestCaseCount>>)} :
            /\ session_state' = [session_state EXCEPT
                                    ![Store(s)].cleaned_df = Present(r.cleaned)]
            /\ event' = SessionEvent(s, r.event)
    /\ UNCHANGED <<upload, stageVars>>

SessionScale(s) ==
    /\ session_state[Store(s)].cleaned_df # Absent
    /\ \E r \in {scale_button(session_state[Store(s)].cleaned_df[1],
                   NumericColumns(session_state[Store(s)].cleaned_df[1]))} :
            /\ session_state' = [session_state EXCEPT
                                    ![Store(s)].scaled_df = Present(r.scaled)]
            /\ event' = SessionEvent(s, r.event)
    /\ UNCHANGED <<upload, stageVars>>

SessionTrain(s) ==
    \E sel \in SessionSelections :
        /\ SelectableIn(session_state[Store(s)], sel)
        /\ \E r \in {train_button(session_state[Store(s)], sel)} :
            /\ session_state' = [session_state EXCEPT ![Store(s)] = r.session]
            /\ event' = SessionEvent(s, r.event)
        /\ UNCHANGED <<upload, stageVars>>

SessionsNext ==
    \E s \in Sessions :
        \/ SessionUpload(s)
        \/ SessionRunClean(s)
        \/ SessionScale(s)
        \/ SessionTrain(s)

SessionsSpec == SessionsInit /\ [][SessionsNext]_vars

\* What one click can make of a session's contents, given that session's
\* file and contents alone.
ClickOutcomes(file, c) ==
    {c}
    \cup (IF file = Absent THEN {}
          ELSE {[c EXCEPT !.cleaned_df =
                    Present(run_clean(file[1], fill_mean, TRUE,
                                      <<ColTestCaseCount>>).cleaned)] :
                    fill_mean \in BOOLEAN})
    \cup (IF c.cleaned_df = Absent THEN {}
          ELSE {[c EXCEPT !.scaled_df =
                    Present(scale_button(c.cleaned_df[1],
                                NumericColumns(c.cleaned_df[1])).scaled)]})
    \cup {train_button(c, sel).session : sel \in SessionSelections}

\* C21: each session has its own cleaned table, scaled table, models and
\* evaluation: under every interleaving a click of one session leaves the
\* contents and the file of every other session as they were, and what it
\* makes of its own contents depends on its own file and contents alone.
C21_SessionsIsolated ==
    [][/\ \A t \in Sessions :
            t # event'.session =>
                /\ session_state'[t] = session_state[t]
                /\ upload'[t] = upload[t]
       /\ event'.store = event'.session
       /\ session_state'[event'.session] \in
            ClickOutcomes(upload[event'.session],
                          session_state[event'.session])]_vars

\* Both sessions have trained, on different cleaned tables.
C21_Witness ==
    /\ \A s \in Sessions : session_state[s].models # Absent
    /\ session_state[1].cleaned_df # session_state[2].cleaned_df
    /\ session_state[1].models # session_state[2].models



---------------------------------------------------------------------------
\* The two outlier removals side by side.

\* C25: the app's remove_outliers and the script's return the same rows for
\* every table and column list, also with missing values in a processed
\* column and with an absent column in the list.
C25_SameRowsAppAndScript ==
    (call.op = "outliers" /\ call.impl \in {"app", "script"}) =>
        remove_outliers(data, call.columns).ret
            = script_remove_outliers(data, call.columns).ret

\* C25 where it holds: on tables with a value in every processed column and
\* a list naming columns of the table only.
C25_SameRowsOnCompleteInput ==
    (/\ call.op = "outliers"
     /\ call.impl \in {"app", "script"}
     /\ \A k \in DOMAIN call.columns :
            /\ HasColumn(data, call.columns[k])
            /\ NotNa(data, call.columns[k]) = Column(data, call.columns[k])) =>
        remove_outliers(data, call.columns).ret
            = script_remove_outliers(data, call.columns).ret


----------------------------------------------------------------------------
\* linear_regression_model.py next to the app's training step, on the same
\* two tables: the scaled and the cleaned table of a session, saved and read
\* back by the script.

\* train_test_split(..., test_size=TEST_SIZE, random_state=RANDOM_STATE)
ScriptSplitArgs == [test_size |-> TEST_SIZE, random_state |-> RANDOM_STATE]

\* The module body of linear_regression_model.py: X of the scaled file, the
\* targets of the cleaned file, the two splits (the second rebinding X_train
\* and X_test), the two fits and the predictions.  A KeyError or ValueError
\* ends the script.
linear_regression_model(df, df_raw) ==
    IF \/ \E k \in DOMAIN FEATURE_COLUMNS : ~HasColumn(df, FEATURE_COLUMNS[k])
       \/ ~HasColumn(df_raw, TARGET_TIME)
       \/ ~HasColumn(df_raw, TARGET_DEFECTS)
    THEN [raised |-> TRUE]
    ELSE
    LET X == Values(df, FEATURE_COLUMNS)
        y_time == Column(df_raw, TARGET_TIME)
        y_defects == Column(df_raw, TARGET_DEFECTS)
    IN IF \/ SplitRaises(Len(X), Len(y_time), ScriptSplitArgs)
          \/ SplitRaises(Len(X), Len(y_defects), ScriptSplitArgs)
          \/ HasNaN(X, y_time)
          \/ HasNaN(X, y_defects)
       THEN [raised |-> TRUE]
       ELSE
       LET first == train_test_split(Len(X), ScriptSplitArgs)
           second == train_test_split(Len(X), ScriptSplitArgs)
           X_train == Take(X, second.train)
           X_test == Take(X, second.test)
           y_train_time == Take(y_time, first.train)
           y_train_defects == Take(y_defects, second.train)
           time_model == LinearRegressionFit(X_train, y_train_time)
           defect_model == LinearRegressionFit(X_train, y_train_defects)
       IN [raised |-> FALSE,
           features |-> FEATURE_COLUMNS,
           target_time |-> TARGET_TIME,
           target_defects |-> TARGET_DEFECTS,
           args |-> ScriptSplitArgs,
           split_time |-> first,
           split_defects |-> second,
           models |-> [time_model |-> time_model,
                       defect_model |-> defect_model],
           y_pred_time |-> Predict(time_model, X_test),
           y_pred_defects |-> Predict(defect_model, X_test)]

\* A session with its uploaded file, before any click.
ModelInit ==
    /\ upload \in {Present(t) : t \in UploadedTables}
    /\ session_state = EmptySession
    /\ event = NoEvent
    /\ data = NoTable
    /\ call = NoCall
    /\ out = NoResult
    /\ again = NoResult

\* python linear_regression_model.py, with SCALED_DATASET_PATH and
\* CLEANED_DATASET_PATH naming the session's two tables as downloaded.
RunScriptModel ==
    /\ call = NoCall
    /\ session_state.scaled_df # Absent
    /\ session_state.cleaned_df # Absent
    /\ call' = Call("train", "script", FEATURE_COLUMNS, TRUE)
    /\ out' = linear_regression_model(session_state.scaled_df[1],
                                      session_state.cleaned_df[1])
    /\ UNCHANGED <<data, again, appVars>>

\* The tables are prepared with the app's clean and scale clicks (in any
\* order and number), then the script is run on them, then the app's train
\* button is clicked on the same session.
ModelNext ==
    \/ call = NoCall /\ ClickRunClean
    \/ call = NoCall /\ ClickScale
    \/ RunScriptModel
    \/ call # NoCall /\ ClickTrain

ModelSpec == ModelInit /\ [][ModelNext]_vars

\* C26: on the same scaled and cleaned tables the app's training step, once
\* past its guards, and linear_regression_model.py both fit or both fail; when
\* they fit they use the same feature columns in the same order, the same
\* targets, the same test fraction and seed, and produce the same partition,
\* the same two fitted models and the same predictions.
C26_SameTrainingAsScript ==
    (/\ call.op = "train"
     /\ event.op = "train"
     /\ TrainGuards(session_state, event.sel)) =>
        /\ event.trained = ~out.raised
        /\ event.trained =>
            /\ event.used.features = out.features
            /\ event.used.target_time = out.target_time
            /\ event.used.target_defects = out.target_defects
            /\ event.used.args_time = out.args
            /\ event.used.args_defects = out.args
            /\ event.split_time = out.split_time
            /\ event.split_defects = out.split_defects
            /\ session_state.models = Present(out.models)
            /\ session_state.last_eval[1].y_pred_time = out.y_pred_time
            /\ session_state.last_eval[1].y_pred_defects = out.y_pred_defects

\* Both ran on the same tables and fitted, with a test part and a training
\* part, while the app's widgets held another test fraction.
C26_Witness ==
    /\ call.op = "train"
    /\ event.op = "train"
    /\ event.trained
    /\ ~out.raised
    /\ event.sel.test_size # TEST_SIZE
    /\ out.split_time.test # <<>>
    /\ out.split_time.train # <<>>

----------------------------------------------------------------------------
\* The two files dataset_scaling.py saves and linear_regression_model.py
\* reads: the cleaned table (set_data at line 42) and the scaled table
\* (set_data at line 48).

\* The table saved to CLEANED_DATASET_PATH: what remove_outliers returned.
SavedCleaned == out[2].ret

\* The table saved to SCALED_DATASET_PATH: what scale_data returned.
SavedScaled == out[3].ret

\* C27: when dataset_scaling.py has run, the scaled table and the cleaned
\* table it saved have the same number of rows, the same records in the same
\* order (scale_data drops, adds and reorders nothing, and leaves the columns
\* it does not scale as they were), so row i of one and row i of the other
\* are the same record.
C27_ScaledRowsMatchCleaned ==
    call = At("dataset_scaling", 50) =>
        /\ Len(SavedScaled.rows) = Len(SavedCleaned.rows)
        /\ Labels(SavedScaled) = Labels(SavedCleaned)
        /\ SavedScaled.columns = SavedCleaned.columns
        /\ \A i \in DOMAIN SavedCleaned.rows :
            \A c \in Range(SavedCleaned.columns) \ SavedCleaned.numeric :
                SavedScaled.rows[i].cells[c] = SavedCleaned.rows[i].cells[c]

\* dataset_scaling.py has saved both tables; the cleaned one lost a row to
\* the outlier removal, keeps several rows and the scaling changed a value.
C27_Witness ==
    /\ call = At("dataset_scaling", 50)
    /\ Len(SavedCleaned.rows) < Len(data.rows)
    /\ Len(SavedCleaned.rows) >= 2
    /\ SavedScaled # SavedCleaned

----------------------------------------------------------------------------
\* Assignment_week2/bankaccount.py: one account, deposits and withdrawals.
\* data is the account object, call the method last called with its amount
\* and out what the call printed.

\* The balances followed (deposits that would pass it are not tried).
MaxBalance == 10

\* The largest amount tried.
MaxAmount == 4

\* bankaccount(account_holder, balance, account_type)
bankaccount(account_holder, balance, account_type) ==
    [account_holder |-> account_holder, balance |-> balance,
     account_type |-> account_type]

\* self.balance += amount
deposit(self, amount) == [self EXCEPT !.balance = @ + amount]

\* A variant without the comparison.
WithdrawUnchecked(self, amount) ==
    [self |-> [self EXCEPT !.balance = @ - amount], printed |-> <<>>]

\* if amount > self.balance: print(... " has insufficient funds")
\* else: self.balance -= amount
withdraw(self, amount) ==
    IF amount > self.balance
    THEN [self |-> self,
          printed |-> <<self.account_holder, " has insufficient funds">>]
    ELSE [self |-> [self EXCEPT !.balance = @ - amount], printed |-> <<>>]

\* account1 = bankaccount("Santhosh", ..., "Savings"),
\* account2 = bankaccount("Kumar", ..., "Savings"): an account opened with a
\* balance that is not negative.
BankInit ==
    /\ data \in {bankaccount(holder, balance, "Savings") :
                    holder \in {"Santhosh", "Kumar"}, balance \in 0..MaxBalance}
    /\ call = NoCall
    /\ out = NoResult
    /\ again = NoResult
    /\ upload = Absent
    /\ session_state = EmptySession
    /\ event = NoEvent

\* account.deposit(amount), the amount not negative
Deposit ==
    \E amount \in 0..MaxAmount :
        /\ data.balance + amount <= MaxBalance
        /\ data' = deposit(data, amount)
        /\ call' = [op |-> "deposit", amount |-> amount]
        /\ out' = [printed |-> <<>>]
        /\ UNCHANGED <<again, appVars>>

\* account.withdraw(amount), any amount
Withdraw ==
    \E amount \in (-MaxAmount)..MaxAmount :
        \E r \in {withdraw(data, amount)} :
            /\ r.self.balance <= MaxBalance
            /\ data' = r.self
            /\ call' = [op |-> "withdraw", amount |-> amount]
            /\ out' = [printed |-> r.printed]
            /\ UNCHANGED <<again, appVars>>

BankNext ==
    \/ Deposit
    \/ Withdraw

BankSpec == BankInit /\ [][BankNext]_vars

\* C28: for an account opened with a balance that is not negative, the
\* balance is never negative after any sequence of deposits of non-negative
\* amounts and withdrawals; a withdrawal of more than the balance leaves the
\* balance as it was, and any other withdrawal lowers it by exactly the
\* amount.
C28_WithdrawNeverOverdraws ==
    /\ [](data.balance >= 0)
    /\ [][call'.op = "withdraw" =>
            IF call'.amount > data.balance
            THEN data'.balance = data.balance
            ELSE data'.balance = data.balance - call'.amount]_vars

\* A withdrawal of more than the balance was refused on an account that
\* holds money.
C28_Witness ==
    /\ call.op = "withdraw"
    /\ call.amount > data.balance
    /\ out.printed # <<>>
    /\ data.balance > 0

----------------------------------------------------------------------------
\* Assignment_week2/bugtracker.py: data is self.bugs (for every id tried,
\* Absent or the bug's record), call the method last called with its
\* arguments and out whether it raised.

BugIds == {"0001", "0002"}

Descriptions == {"Login button not working", "Typo in homepage"}

Severities == {"high", "low"}

Statuses == {"in progress", "closed"}

\* self.bugs = {}
bugtracker == [bug_id \in BugIds |-> Absent]

\* self.bugs[bug_id] = {"description": ..., "severity": ..., "status": "open"}
add_bug(bugs, bug_id, description, severity) ==
    [bugs EXCEPT ![bug_id] =
        Present([description |-> description, severity |-> severity,
                 status |-> "open"])]

\* A variant that registers an id it does not know
\* (self.bugs.setdefault(bug_id, {})["status"] = new_status).
UpdateOrCreate(bugs, bug_id, new_status) ==
    [bugs |-> [bugs EXCEPT ![bug_id] =
                IF @ = Absent
                THEN Present([description |-> "", severity |-> "",
                              status |-> new_status])
                ELSE Present([@[1] EXCEPT !.status = new_status])],
     raised |-> FALSE]

\* self.bugs[bug_id]["status"] = new_status: KeyError for an id that is not
\* a key of self.bugs, before anything is assigned.
update_status(bugs, bug_id, new_status) ==
    IF bugs[bug_id] = Absent
    THEN [bugs |-> bugs, raised |-> TRUE]
    ELSE [bugs |-> [bugs EXCEPT ![bug_id] =
                        Present([@[1] EXCEPT !.status = new_status])],
          raised |-> FALSE]

\* tracker = bugtracker()
BugInit ==
    /\ data = bugtracker
    /\ call = NoCall
    /\ out = NoResult
    /\ again = NoResult
    /\ upload = Absent
    /\ session_state = EmptySession
    /\ event = NoEvent

\* tracker.add_bug(bug_id, description, severity)
AddBug ==
    \E bug_id \in BugIds, description \in Descriptions, severity \in Severities :
        /\ data' = add_bug(data, bug_id, description, severity)
        /\ call' = [op |-> "add_bug", bug_id |-> bug_id,
                    description |-> description, severity |-> severity]
        /\ out' = [raised |-> FALSE]
        /\ UNCHANGED <<again, appVars>>

\* tracker.update_status(bug_id, new_status)
UpdateStatus ==
    \E bug_id \in BugIds, new_status \in Statuses :
        \E r \in {update_status(data, bug_id, new_status)} :
            /\ data' = r.bugs
            /\ call' = [op |-> "update_status", bug_id |-> bug_id,
                        new_status |-> new_status]
            /\ out' = [raised |-> r.raised]
            /\ UNCHANGED <<again, appVars>>

BugNext ==
    \/ AddBug
    \/ UpdateStatus

BugSpec == BugInit /\ [][BugNext]_vars

\* C29: update_status(bug_id, s) on a registered id sets that bug's status
\* to s and changes nothing else: its description and severity and every
\* other bug stay as they were; on an id never added it fails and the tracker
\* is unchanged; add_bug records the bug with status "open" and the given
\* description and severity, also when the id is already registered.
C29_UpdateStatusFrame ==
    [][/\ call'.op = "update_status" =>
            IF data[call'.bug_id] # Absent
            THEN /\ ~out'.raised
                 /\ data'[call'.bug_id] # Absent
                 /\ data'[call'.bug_id][1].status = call'.new_status
                 /\ data'[call'.bug_id][1].description =
                        data[call'.bug_id][1].description
                 /\ data'[call'.bug_id][1].severity =
                        data[call'.bug_id][1].severity
                 /\ \A other \in BugIds \ {call'.bug_id} :
                        data'[other] = data[other]
            ELSE /\ out'.raised
                 /\ data' = data
       /\ call'.op = "add_bug" =>
            data'[call'.bug_id] =
                Present([description |-> call'.description,
                         severity |-> call'.severity, status |-> "open"])]_vars

\* The status of one of two registered bugs was updated.
C29_Witness ==
    /\ call.op = "update_status"
    /\ ~out.raised
    /\ \A bug_id \in BugIds : data[bug_id] # Absent
    /\ data[call.bug_id][1].status = call.new_status

===========================================================================
